---- MODULE Spec2Model ----
(***************************************************************************)
(* Self-install and self-update subsystem of sortpath: the Release         *)
(* Resolver (updater.CheckLatestRelease), the Atomic Updater               *)
(* (updater.UpdateBinary under cli.HandleUpdateCommand), the Update        *)
(* Scheduler (main.checkForUpdates), the Binary Installer and the PATH     *)
(* Integrator (cli.HandleInstallCommand, cli.addDirToShellPATH) and the    *)
(* Install Orchestrator (main, main.maybePromptInstall).                   *)
(* Further components: platform identification (install.sh), the config    *)
(* resolver (config.ResolveConfigWithLoader), cli.ParseArgs and the config *)
(* store (config.FileLoader, SecureFileOperations.AtomicWrite, cli         *)
(* setConfigValue and removeConfigValue).                                  *)
(*                                                                         *)
(* Strings whose characters the code inspects (asset names, platform tags, *)
(* release tags, versions) are sequences of one-character strings, so that *)
(* strings.Contains and strings.TrimPrefix are computed, not assumed.      *)
(* Files are inodes named by directory entries (POSIX): a rename moves a   *)
(* directory entry, an open file keeps its inode.                          *)
(* Time is counted in ticks of 1/TicksPerSec second; a timestamp written   *)
(* in RFC3339 keeps whole seconds only.                                    *)
(***************************************************************************)
EXTENDS Integers, Sequences, FiniteSets, TLC

VARIABLES
    Version,        \* main.Version of the running binary (characters)
    platform,       \* [os, arch]: runtime.GOOS, runtime.GOARCH
    clock,          \* wall clock, in ticks
    lastCheckFile,  \* ~/.cache/sortpath/last-check: absent, unparseable or whole seconds
    installedPath,  \* Config.InstalledPath as persisted in config.yaml
    dir,            \* directory of the executable: path -> inode (0: no entry)
    inodes,         \* inode -> bytes (sequence); inode 0 is never used
    up,             \* `sortpath update` processes
    rd,             \* a process reading the live executable
    sc,             \* startup update checks (go checkForUpdates())
    netCalls,       \* history: the resolver calls made by startup checks
    rs,             \* one evaluation of CheckLatestRelease on a given response
    env,            \* environment of an invocation: PATH, SHELL, HOME, stdin, CI, ...
    disk,           \* files and directories the install flow touches, free space
    mn,             \* main(): one invocation of the program
    ins,            \* the activation of cli.HandleInstallCommand
    hist,           \* history: the calls of addDirToShellPATH, oldest first
    pid,            \* platform identification: install.sh and the resolver
    rc,             \* one call of config.ResolveConfigWithLoader
    pa,             \* one call of cli.ParseArgs from main
    cf              \* config.yaml, its temp file, and the running `sortpath config` command

installVars == <<env, disk, mn, ins, hist>>

toolVars == <<pid, rc, pa, cf>>

vars == <<Version, platform, clock, lastCheckFile, installedPath, dir, inodes,
          up, rd, sc, netCalls, rs, env, disk, mn, ins, hist, pid, rc, pa, cf>>

-----------------------------------------------------------------------------
(* Strings *)

linux == <<"l", "i", "n", "u", "x">>
darwin == <<"d", "a", "r", "w", "i", "n">>
windows == <<"w", "i", "n", "d", "o", "w", "s">>
amd64 == <<"a", "m", "d", "6", "4">>
arm64 == <<"a", "r", "m", "6", "4">>
dotExe == <<".", "e", "x", "e">>
sortpathDash == <<"s", "o", "r", "t", "p", "a", "t", "h", "-">>
sortpathUnderscore == <<"s", "o", "r", "t", "p", "a", "t", "h", "_">>
dev == <<"d", "e", "v">>
V110 == <<"1", ".", "1", ".", "0">>
V120 == <<"1", ".", "2", ".", "0">>

\* strings.HasPrefix
HasPrefix(s, p) == Len(s) >= Len(p) /\ SubSeq(s, 1, Len(p)) = p

\* strings.TrimPrefix: removes one leading occurrence of p
TrimPrefix(s, p) == IF HasPrefix(s, p) THEN SubSeq(s, Len(p) + 1, Len(s)) ELSE s

\* strings.Contains
Contains(s, sub) ==
    \E i \in 1..(Len(s) - Len(sub) + 1) : SubSeq(s, i, i + Len(sub) - 1) = sub

-----------------------------------------------------------------------------
(* Release Resolver: updater.CheckLatestRelease *)

StatusOK == 200
StatusNotFound == 404

\* githubRelease as json.Decoder fills it; decodes = FALSE: Decode returns an error
GithubRelease(tag, assets) == [decodes |-> TRUE, tag_name |-> tag, assets |-> assets]

\* the body of a metadata response that json.Decoder cannot decode
Undecodable == [decodes |-> FALSE, tag_name |-> <<>>, assets |-> <<>>]

\* a response of http.Get; transport = FALSE: http.Get returns an error
TransportFailure == [transport |-> FALSE, status |-> StatusNotFound, body |-> Undecodable]

Response(status, body) == [transport |-> TRUE, status |-> status, body |-> body]

Asset(name, url) == [name |-> name, url |-> url]

NoURL == ""

\* the platform part of the asset names the Makefile builds: os-arch, ".exe" on windows
PlatformTagDashed(os, arch) == (os \o <<"-">> \o arch) \o (IF os = windows THEN dotExe ELSE <<>>)

\* platform := runtime.GOOS + "_" + runtime.GOARCH; ".exe" appended on windows
PlatformTag(os, arch) == (os \o <<"_">> \o arch) \o (IF os = windows THEN dotExe ELSE <<>>)

\* variant: the loop without its break, which keeps the last match
FirstMatchURLNoBreak(assets, tag) ==
    LET hits == {i \in 1..Len(assets) : Contains(assets[i].name, tag)}
    IN  IF hits = {} THEN NoURL
        ELSE assets[CHOOSE i \in hits : \A j \in hits : j <= i].url

\* the loop over release.Assets: the URL of the first asset whose name contains
\* the platform, "" when the loop ends without a match
RECURSIVE FirstMatchURL(_, _)
FirstMatchURL(assets, tag) ==
    IF assets = <<>> THEN NoURL
    ELSE IF Contains(Head(assets).name, tag) THEN Head(assets).url
    ELSE FirstMatchURL(Tail(assets), tag)

NoRelease == [Version |-> <<>>, DownloadURL |-> NoURL]

Failed(kind) == [err |-> kind, release |-> NoRelease]

\* CheckLatestRelease on the response resp of the metadata endpoint
CheckLatestRelease(resp, os, arch) ==
    IF ~resp.transport THEN Failed("fetch")
    ELSE IF resp.status # StatusOK THEN Failed("status")
    ELSE IF ~resp.body.decodes THEN Failed("decode")
    ELSE LET downloadURL == FirstMatchURL(resp.body.assets, PlatformTag(os, arch))
         IN  IF downloadURL = NoURL THEN Failed("noasset")
             ELSE [err |-> "none",
                   release |-> [Version |-> TrimPrefix(resp.body.tag_name, <<"v">>),
                                DownloadURL |-> downloadURL]]

-----------------------------------------------------------------------------
(* Files *)

\* os.Executable() of the running sortpath
ExecPath == "/usr/local/bin/sortpath"

\* variant: the download is written over the executable itself
TmpPathInPlace(execPath) == execPath

\* tmpPath := execPath + ".tmp"
TmpPath(execPath) == execPath \o ".tmp"

\* a recorded install path other than the running executable's
InstalledElsewhere == "/h/bin/sortpath"

Paths == {ExecPath, ExecPath \o ".tmp", InstalledElsewhere}

\* longest download body, in bytes
MaxBodyLen == 2

\* the binary installed before the update, a temp file left by an interrupted
\* update, and the bodies a download can deliver
OldBinary == <<"o", "o">>
StaleTmp == <<"s">>
Bodies == UNION {[1..n -> {"a", "b"}] : n \in 0..MaxBodyLen}

Exists(path) == dir[path] # 0

\* the bytes at a path that exists
Content(path) == inodes[dir[path]]

\* a write of one byte at offset off (a hole before it reads as "0")
WriteAt(bytes, off, b) ==
    [i \in 1..(IF off + 1 > Len(bytes) THEN off + 1 ELSE Len(bytes)) |->
        IF i = off + 1 THEN b
        ELSE IF i <= Len(bytes) THEN bytes[i]
        ELSE "0"]

\* variant: os.Stat only, the size is not looked at
VerifyBinaryNoSize(path) == IF ~Exists(path) THEN "stat" ELSE "none"

\* verifyBinary: os.Stat, then the size
VerifyBinary(path) ==
    IF ~Exists(path) THEN "stat"
    ELSE IF Len(Content(path)) = 0 THEN "empty"
    ELSE "none"

\* variant: the install state is not consulted
IsInstalledAlways == TRUE

\* updater.IsInstalled: config.Load() and InstalledPath != ""
IsInstalled == installedPath # ""

-----------------------------------------------------------------------------
(* `sortpath update`: cli.HandleUpdateCommand and updater.UpdateBinary *)

\* the update commands: u2 runs only next to u1, in the specification of two
\* concurrent updates
UProcs == {"u1", "u2"}

\* the metadata responses offered to `update` and to the startup checks
AssetName(prefix, tag) == prefix \o tag

\* a release whose assets are named sortpath-os-arch, as the Makefile builds them
PublishedRelease(tagName) ==
    GithubRelease(tagName,
        <<Asset(AssetName(sortpathDash, PlatformTagDashed(linux, amd64)), "url-linux-amd64"),
          Asset(AssetName(sortpathDash, PlatformTagDashed(linux, arm64)), "url-linux-arm64"),
          Asset(AssetName(sortpathDash, PlatformTagDashed(darwin, amd64)), "url-darwin-amd64"),
          Asset(AssetName(sortpathDash, PlatformTagDashed(darwin, arm64)), "url-darwin-arm64"),
          Asset(AssetName(sortpathDash, PlatformTagDashed(windows, amd64)), "url-windows-amd64")>>)

\* a release whose assets are named sortpath_os_arch
UnderscoreRelease(tagName) ==
    GithubRelease(tagName,
        <<Asset(AssetName(sortpathUnderscore, PlatformTag(linux, arm64)), "url-linux-arm64"),
          Asset(AssetName(sortpathUnderscore, PlatformTag(linux, amd64)), "url-linux-amd64")>>)

MetaResponses ==
    {TransportFailure, Response(StatusNotFound, Undecodable), Response(StatusOK, Undecodable),
     Response(StatusOK, PublishedRelease(<<"v">> \o V120)),
     Response(StatusOK, PublishedRelease(V120)),
     Response(StatusOK, UnderscoreRelease(<<"v">> \o V120)),
     Response(StatusOK, UnderscoreRelease(V120))}

\* the responses of the download: transport error, non-200, or a body
DownloadResponses ==
    {[transport |-> FALSE, status |-> StatusNotFound, body |-> <<>>],
     [transport |-> TRUE, status |-> StatusNotFound, body |-> <<>>]}
    \cup {[transport |-> TRUE, status |-> StatusOK, body |-> b] : b \in Bodies}

UpInit ==
    [pc |-> "uc_parse", checkOnly |-> FALSE, rel |-> Failed("unset"), body |-> <<>>,
     wpos |-> 0, fd |-> 0, opened |-> FALSE, downloaded |-> FALSE, renamed |-> FALSE,
     err |-> "unset", exit |-> -1, msg |-> ""]

UpOff == [UpInit EXCEPT !.pc = "off"]

\* process exit of the update command
Exit(p, code, msg) ==
    up' = [up EXCEPT ![p].pc = "done", ![p].exit = code, ![p].msg = msg]

\* fs.Parse(args): --check-only
UC_Parse(p) ==
    /\ up[p].pc = "uc_parse"
    /\ \E c \in BOOLEAN : up' = [up EXCEPT ![p].pc = "uc_check", ![p].checkOnly = c]
    /\ UNCHANGED <<toolVars, installVars, Version, platform, clock, lastCheckFile, installedPath, dir, inodes,
                   rd, sc, netCalls, rs>>

\* release, err := updater.CheckLatestRelease(); exit 1 on error
UC_CheckLatest(p) ==
    /\ up[p].pc = "uc_check"
    /\ \E resp \in MetaResponses :
          LET r == CheckLatestRelease(resp, platform.os, platform.arch)
          IN  IF r.err # "none"
              THEN up' = [up EXCEPT ![p].pc = "done", ![p].exit = 1,
                                    ![p].msg = "check_failed", ![p].rel = r]
              ELSE up' = [up EXCEPT ![p].pc = "uc_compare", ![p].rel = r]
    /\ UNCHANGED <<toolVars, installVars, Version, platform, clock, lastCheckFile, installedPath, dir, inodes,
                   rd, sc, netCalls, rs>>

\* variant: the IsInstalled guard placed before the --check-only return
UC_CompareInstalledFirst(p) ==
    /\ up[p].pc = "uc_compare"
    /\ IF up[p].rel.release.Version = Version THEN Exit(p, 0, "already_latest")
       ELSE IF ~IsInstalled THEN Exit(p, 1, "not_installed")
       ELSE IF up[p].checkOnly THEN Exit(p, 0, "check_only")
       ELSE up' = [up EXCEPT ![p].pc = "ub_exec"]
    /\ UNCHANGED <<toolVars, installVars, Version, platform, clock, lastCheckFile, installedPath, dir, inodes,
                   rd, sc, netCalls, rs>>

\* the version comparison, --check-only and the IsInstalled guard
UC_Compare(p) ==
    /\ up[p].pc = "uc_compare"
    /\ IF up[p].rel.release.Version = Version THEN Exit(p, 0, "already_latest")
       ELSE IF up[p].checkOnly THEN Exit(p, 0, "check_only")
       ELSE IF ~IsInstalled THEN Exit(p, 1, "not_installed")
       ELSE up' = [up EXCEPT ![p].pc = "ub_exec"]
    /\ UNCHANGED <<toolVars, installVars, Version, platform, clock, lastCheckFile, installedPath, dir, inodes,
                   rd, sc, netCalls, rs>>

\* UpdateBinary returns err before any defer that touches the temp file is set
UB_Return(p, e) == up' = [up EXCEPT ![p].pc = "uc_result", ![p].err = e]

\* execPath, err := os.Executable()
UB_Executable(p) ==
    /\ up[p].pc = "ub_exec"
    /\ \/ up' = [up EXCEPT ![p].pc = "ub_get"]
       \/ UB_Return(p, "executable")
    /\ UNCHANGED <<toolVars, installVars, Version, platform, clock, lastCheckFile, installedPath, dir, inodes,
                   rd, sc, netCalls, rs>>

\* resp, err := http.Get(release.DownloadURL) and the status check
UB_Get(p) ==
    /\ up[p].pc = "ub_get"
    /\ \E resp \in DownloadResponses :
          IF ~resp.transport
          THEN up' = [up EXCEPT ![p].pc = "uc_result", ![p].err = "download",
                                ![p].downloaded = TRUE]
          ELSE IF resp.status # StatusOK
          THEN up' = [up EXCEPT ![p].pc = "uc_result", ![p].err = "status",
                                ![p].downloaded = TRUE]
          ELSE up' = [up EXCEPT ![p].pc = "ub_open", ![p].body = resp.body,
                                ![p].downloaded = TRUE]
    /\ UNCHANGED <<toolVars, installVars, Version, platform, clock, lastCheckFile, installedPath, dir, inodes,
                   rd, sc, netCalls, rs>>

\* os.OpenFile(tmpPath, O_CREATE|O_WRONLY|O_TRUNC, 0755): creates the file or
\* truncates the one that is there; or fails
UB_Open(p) ==
    /\ up[p].pc = "ub_open"
    /\ LET tmp == TmpPath(ExecPath)
       IN  \/ /\ Exists(tmp)
              /\ inodes' = [inodes EXCEPT ![dir[tmp]] = <<>>]
              /\ dir' = dir
              /\ up' = [up EXCEPT ![p].pc = "ub_copy", ![p].fd = dir[tmp],
                                  ![p].opened = TRUE]
           \/ /\ ~Exists(tmp)
              /\ inodes' = Append(inodes, <<>>)
              /\ dir' = [dir EXCEPT ![tmp] = Len(inodes) + 1]
              /\ up' = [up EXCEPT ![p].pc = "ub_copy", ![p].fd = Len(inodes) + 1,
                                  ![p].opened = TRUE]
           \/ /\ UB_Return(p, "create")
              /\ UNCHANGED <<dir, inodes>>
    /\ UNCHANGED <<toolVars, installVars, Version, platform, clock, lastCheckFile, installedPath,
                   rd, sc, netCalls, rs>>

\* io.Copy(tmpFile, resp.Body): one byte written at the file offset, or an error
\* of the read or of the write; then the deferred calls run
UB_Copy(p) ==
    /\ up[p].pc = "ub_copy"
    /\ \/ /\ up[p].wpos < Len(up[p].body)
          /\ inodes' = [inodes EXCEPT ![up[p].fd] =
                           WriteAt(inodes[up[p].fd], up[p].wpos, up[p].body[up[p].wpos + 1])]
          /\ up' = [up EXCEPT ![p].wpos = up[p].wpos + 1]
       \/ /\ up[p].wpos < Len(up[p].body)
          /\ up' = [up EXCEPT ![p].pc = "ub_defer_remove", ![p].err = "write"]
          /\ UNCHANGED inodes
    /\ UNCHANGED <<toolVars, installVars, Version, platform, clock, lastCheckFile, installedPath, dir,
                   rd, sc, netCalls, rs>>

\* io.Copy returns at the end of the body; tmpFile.Close()
UB_CopyDone(p) ==
    /\ up[p].pc = "ub_copy"
    /\ up[p].wpos = Len(up[p].body)
    /\ up' = [up EXCEPT ![p].pc = "ub_verify", ![p].fd = 0]
    /\ UNCHANGED <<toolVars, installVars, Version, platform, clock, lastCheckFile, installedPath, dir, inodes,
                   rd, sc, netCalls, rs>>

\* verifyBinary(tmpPath)
UB_Verify(p) ==
    /\ up[p].pc = "ub_verify"
    /\ IF VerifyBinary(TmpPath(ExecPath)) # "none"
       THEN up' = [up EXCEPT ![p].pc = "ub_defer_remove", ![p].err = "verify"]
       ELSE up' = [up EXCEPT ![p].pc = "ub_rename"]
    /\ UNCHANGED <<toolVars, installVars, Version, platform, clock, lastCheckFile, installedPath, dir, inodes,
                   rd, sc, netCalls, rs>>

\* os.Rename(tmpPath, execPath): the entry of execPath now names the temp file's
\* inode, in one step; or the rename fails and changes nothing
UB_Rename(p) ==
    /\ up[p].pc = "ub_rename"
    /\ LET tmp == TmpPath(ExecPath)
       IN  \/ /\ Exists(tmp)
              /\ dir' = IF tmp = ExecPath THEN dir
                        ELSE [dir EXCEPT ![ExecPath] = dir[tmp], ![tmp] = 0]
              /\ up' = [up EXCEPT ![p].pc = "ub_defer_remove", ![p].err = "none",
                                  ![p].renamed = TRUE]
           \/ /\ up' = [up EXCEPT ![p].pc = "ub_defer_remove", ![p].err = "apply"]
              /\ UNCHANGED dir
    /\ UNCHANGED <<toolVars, installVars, Version, platform, clock, lastCheckFile, installedPath, inodes,
                   rd, sc, netCalls, rs>>

\* variant: no deferred os.Remove
UB_DeferRemoveSkipped(p) ==
    /\ up[p].pc = "ub_defer_remove"
    /\ up' = [up EXCEPT ![p].pc = "ub_defer_close"]
    /\ UNCHANGED <<toolVars, installVars, Version, platform, clock, lastCheckFile, installedPath, dir, inodes,
                   rd, sc, netCalls, rs>>

\* defer os.Remove(tmpPath): runs on every return after the open, first of the
\* deferred calls; its error is dropped
UB_DeferRemove(p) ==
    /\ up[p].pc = "ub_defer_remove"
    /\ dir' = [dir EXCEPT ![TmpPath(ExecPath)] = 0]
    /\ up' = [up EXCEPT ![p].pc = "ub_defer_close"]
    /\ UNCHANGED <<toolVars, installVars, Version, platform, clock, lastCheckFile, installedPath, inodes,
                   rd, sc, netCalls, rs>>

\* defer tmpFile.Close()
UB_DeferClose(p) ==
    /\ up[p].pc = "ub_defer_close"
    /\ up' = [up EXCEPT ![p].pc = "uc_result", ![p].fd = 0]
    /\ UNCHANGED <<toolVars, installVars, Version, platform, clock, lastCheckFile, installedPath, dir, inodes,
                   rd, sc, netCalls, rs>>

\* HandleUpdateCommand on the return of UpdateBinary: exit 1 on error
UC_Result(p) ==
    /\ up[p].pc = "uc_result"
    /\ IF up[p].err # "none" THEN Exit(p, 1, "update_failed")
       ELSE Exit(p, 0, "updated")
    /\ UNCHANGED <<toolVars, installVars, Version, platform, clock, lastCheckFile, installedPath, dir, inodes,
                   rd, sc, netCalls, rs>>

-----------------------------------------------------------------------------
(* A process started at any moment that reads the live executable, as the    *)
(* loader of a newly started sortpath does: open the path, read to the end. *)

RdInit == [pc |-> "idle", ino |-> 0, pos |-> 0, seen |-> <<>>, missing |-> FALSE]

RD_Open ==
    /\ rd.pc = "idle"
    /\ IF Exists(ExecPath)
       THEN rd' = [rd EXCEPT !.pc = "reading", !.ino = dir[ExecPath]]
       ELSE rd' = [rd EXCEPT !.pc = "done", !.missing = TRUE]
    /\ UNCHANGED <<toolVars, installVars, Version, platform, clock, lastCheckFile, installedPath, dir, inodes,
                   up, sc, netCalls, rs>>

RD_Read ==
    /\ rd.pc = "reading"
    /\ IF rd.pos < Len(inodes[rd.ino])
       THEN rd' = [rd EXCEPT !.pos = rd.pos + 1,
                             !.seen = Append(rd.seen, inodes[rd.ino][rd.pos + 1])]
       ELSE rd' = [rd EXCEPT !.pc = "done"]
    /\ UNCHANGED <<toolVars, installVars, Version, platform, clock, lastCheckFile, installedPath, dir, inodes,
                   up, sc, netCalls, rs>>

-----------------------------------------------------------------------------
(* The update command next to a reader of the executable *)

SProcs == {"s1", "s2"}

ScOff == [pc |-> "off", lastCheck |-> [zero |-> TRUE, t |-> 0], now |-> 0,
          called |-> FALSE, resp |-> TransportFailure, err |-> "unset",
          notified |-> FALSE, notifiedVersion |-> <<>>, after |-> {}, read |-> FALSE]

RsOff == [pc |-> "off", resp |-> TransportFailure, result |-> Failed("unset"),
          persisted |-> <<>>]

NoFile == [kind |-> "none", secs |-> 0]

\* the install flow is not part of this run
ToolOff ==
    /\ pid = [pc |-> "off"] /\ rc = [pc |-> "off"] /\ pa = [pc |-> "off"]
    /\ cf = [pc |-> "off"]

InstallOff ==
    /\ ToolOff
    /\ env = [PATH |-> "", SHELL |-> "", HOME |-> "", stdin |-> "pipe", CI |-> "",
              container |-> FALSE, TERM |-> ""]
    /\ disk = [files |-> <<>>, dirs |-> <<>>, free |-> 0, noread |-> {}]
    /\ mn = [pc |-> "off"]
    /\ ins = [pc |-> "off"]
    /\ hist = <<>>

\* the directory holds the installed binary and, possibly, the temp file of an
\* update that was killed before its deferred Remove
Init ==
    /\ Version \in {V110, V120}
    /\ platform = [os |-> linux, arch |-> amd64]
    /\ clock = 0
    /\ lastCheckFile = NoFile
    /\ installedPath \in {"", ExecPath}
    /\ \/ /\ dir = [q \in Paths |-> IF q = ExecPath THEN 1 ELSE 0]
          /\ inodes = <<OldBinary>>
       \/ /\ dir = [q \in Paths |-> IF q = ExecPath THEN 1
                                   ELSE IF q = TmpPath(ExecPath) THEN 2 ELSE 0]
          /\ inodes = <<OldBinary, StaleTmp>>
    /\ up = [p \in UProcs |-> IF p = "u1" THEN UpInit ELSE UpOff]
    /\ rd = RdInit
    /\ sc = [s \in SProcs |-> ScOff]
    /\ netCalls = {}
    /\ rs = RsOff
    /\ InstallOff

Next ==
    \/ \E p \in UProcs :
          \/ UC_Parse(p) \/ UC_CheckLatest(p) \/ UC_Compare(p)
          \/ UB_Executable(p) \/ UB_Get(p) \/ UB_Open(p) \/ UB_Copy(p) \/ UB_CopyDone(p)
          \/ UB_Verify(p) \/ UB_Rename(p) \/ UB_DeferRemove(p) \/ UB_DeferClose(p)
          \/ UC_Result(p)
    \/ RD_Open
    \/ RD_Read

Spec == Init /\ [][Next]_vars

-----------------------------------------------------------------------------
(* Properties of the update command *)

\* the temp file's path, as the properties name it
TmpFile == ExecPath \o ".tmp"

\* the executable's entry still names the inode of the old binary, whose bytes
\* are the old binary's
LiveUnchanged == dir[ExecPath] = 1 /\ inodes[1] = OldBinary

\* the temp path holds nothing, or the stale file that was there at the start
TmpUntouched ==
    Exists(TmpFile) => dir[TmpFile] = 2 /\ inodes[2] = StaleTmp /\ Len(inodes) = 2

Returned(p) == up[p].pc \in {"uc_result", "done"} /\ up[p].err # "unset"

\* C1: when UpdateBinary returns nil for a non-empty download, the executable path
\* holds exactly the downloaded bytes; and a process that opens and reads the
\* executable path at any moment of the update reads the whole old binary or the
\* whole downloaded one, and never finds the path missing.
C1_AtomicReplace ==
    /\ \A p \in UProcs :
          Returned(p) /\ up[p].err = "none" =>
             /\ up[p].body # <<>>
             /\ Exists(ExecPath)
             /\ Content(ExecPath) = up[p].body
    /\ rd.pc = "done" =>
          /\ ~rd.missing
          /\ \/ rd.seen = OldBinary
             \/ \E p \in UProcs : up[p].renamed /\ rd.seen = up[p].body

\* the update has replaced the binary while the reader, which opened the path
\* before the rename, is still reading the old one
C1_Witness ==
    /\ up["u1"].pc = "uc_result" /\ up["u1"].err = "none"
    /\ Content(ExecPath) = <<"a", "b">>
    /\ rd.pc = "reading" /\ rd.pos = 1 /\ rd.ino # dir[ExecPath]

\* C2: when the download delivers a zero-byte body (and the temp file could be
\* opened for it), UpdateBinary returns the verification error, the executable is
\* unchanged and nothing is left at the temp path.
C2_EmptyDownloadRejected ==
    \A p \in UProcs :
        Returned(p) /\ up[p].opened /\ up[p].body = <<>> =>
           /\ up[p].err = "verify"
           /\ LiveUnchanged
           /\ ~Exists(TmpFile)

C2_Witness ==
    /\ up["u1"].pc = "done" /\ up["u1"].opened /\ up["u1"].body = <<>>
    /\ up["u1"].exit = 1
    /\ Len(inodes) = 2

\* C3: whenever UpdateBinary returns an error (transport, status, temp-file
\* creation, write, verification, rename), the executable is unchanged and no temp
\* file of this run remains: the temp path is empty if the run opened it, and holds
\* at most the stale file it found if it did not.
C3_FailureLeavesNoTrace ==
    \A p \in UProcs :
        Returned(p) /\ up[p].err # "none" =>
           /\ LiveUnchanged
           /\ up[p].opened => ~Exists(TmpFile)
           /\ ~up[p].opened => TmpUntouched
           /\ up[p].pc = "done" => up[p].exit = 1

\* the rename failed after a full download
C3_Witness ==
    /\ up["u1"].pc = "done" /\ up["u1"].err = "apply" /\ up["u1"].body = <<"a", "b">>

\* C4: update without --check-only, a release of another version resolved, and
\* InstalledPath empty: the command exits 1 with the not-installed message, starts
\* no download and touches neither the executable nor the temp path.
NotInstalledCase(p) ==
    /\ up[p].rel.err = "none" /\ up[p].rel.release.Version # Version
    /\ ~up[p].checkOnly /\ installedPath = ""

C4_NotInstalledNoDownload ==
    \A p \in UProcs :
        NotInstalledCase(p) =>
           /\ up[p].pc \in {"uc_compare", "done"}
           /\ ~up[p].downloaded /\ ~up[p].opened
           /\ LiveUnchanged /\ TmpUntouched
           /\ up[p].pc = "done" => up[p].exit = 1 /\ up[p].msg = "not_installed"

C4_Witness == NotInstalledCase("u1") /\ up["u1"].pc = "done"

\* C5: once the resolved version equals the current one, or --check-only is set,
\* the command downloads nothing, leaves the executable, the temp path and the
\* install state as they are and exits 0, whether or not InstalledPath is empty.
NoUpdateCase(p) ==
    /\ up[p].rel.err = "none"
    /\ up[p].rel.release.Version = Version \/ up[p].checkOnly

C5_Holds ==
    \A p \in UProcs :
        NoUpdateCase(p) =>
           /\ up[p].pc \in {"uc_compare", "done"}
           /\ ~up[p].downloaded /\ ~up[p].opened
           /\ LiveUnchanged /\ TmpUntouched
           /\ up[p].pc = "done" => up[p].exit = 0

C5_Frame ==
    (\E p \in UProcs : NoUpdateCase(p)) => UNCHANGED <<dir, inodes, installedPath>>

C5_CheckOnlyOrCurrentIsInert == [](C5_Holds) /\ [][C5_Frame]_vars

\* --check-only with a newer release and an empty InstalledPath
C5_Witness ==
    /\ up["u1"].pc = "done" /\ up["u1"].checkOnly /\ installedPath = ""
    /\ up["u1"].rel.err = "none" /\ up["u1"].rel.release.Version # Version
    /\ up["u1"].exit = 0

-----------------------------------------------------------------------------
(* Update Scheduler: main.checkForUpdates, updater.GetLastUpdateCheck and     *)
(* updater.SetLastUpdateCheck                                                *)

\* ticks in a second: the clock's resolution
TicksPerSec == 2

SecondsPerMinute == 60

\* 1*time.Minute, in ticks
ThrottleInterval == 1 * SecondsPerMinute * TicksPerSec

\* the clock's last value
MaxClock == ThrottleInterval + TicksPerSec

\* the steps the clock advances by: just under the interval, and the interval
Delays == {ThrottleInterval - 1, ThrottleInterval}

\* t.Format(time.RFC3339): whole seconds, the fraction is dropped
FormatRFC3339(t) == t \div TicksPerSec

\* time.Parse(time.RFC3339, s), as a clock value
ParseRFC3339(secs) == secs * TicksPerSec

Garbage == [kind |-> "garbage", secs |-> 0]

ZeroTime == [zero |-> TRUE, t |-> 0]

\* GetLastUpdateCheck, with checkForUpdates taking time.Time{} on an error:
\* no file, or a file that does not parse, gives the zero time
GetLastUpdateCheck ==
    IF lastCheckFile.kind = "time"
    THEN [zero |-> FALSE, t |-> ParseRFC3339(lastCheckFile.secs)]
    ELSE ZeroTime

\* SetLastUpdateCheck(t): os.WriteFile of the formatted time
SetLastUpdateCheck(t) == lastCheckFile' = [kind |-> "time", secs |-> FormatRFC3339(t)]

\* variant: the interval written as 1*time.Second
ThrottledWithinSecond(lastCheck, now) ==
    ~lastCheck.zero /\ now - lastCheck.t < 1 * TicksPerSec

\* !lastCheck.IsZero() && now.Sub(lastCheck) < 1*time.Minute
Throttled(lastCheck, now) ==
    ~lastCheck.zero /\ now - lastCheck.t < ThrottleInterval

ScInit == [ScOff EXCEPT !.pc = "idle"]

\* variant: the check starts whatever the version
CF_StartAnyVersion(s) ==
    /\ sc[s].pc = "idle"
    /\ sc' = [sc EXCEPT ![s].pc = "cf_get",
                        ![s].after = {q \in SProcs : sc[q].pc = "done"}]
    /\ UNCHANGED <<toolVars, installVars, Version, platform, clock, lastCheckFile, installedPath, dir, inodes,
                   up, rd, netCalls, rs>>

\* main: if Version != "dev" { go checkForUpdates() }, and the same test at the
\* head of checkForUpdates
CF_Start(s) ==
    /\ sc[s].pc = "idle"
    /\ sc' = [sc EXCEPT ![s].pc = IF Version = dev THEN "done" ELSE "cf_get",
                        ![s].after = {q \in SProcs : sc[q].pc = "done"}]
    /\ UNCHANGED <<toolVars, installVars, Version, platform, clock, lastCheckFile, installedPath, dir, inodes,
                   up, rd, netCalls, rs>>

\* lastCheck, err := updater.GetLastUpdateCheck()
CF_GetLast(s) ==
    /\ sc[s].pc = "cf_get"
    /\ sc' = [sc EXCEPT ![s].pc = "cf_now", ![s].lastCheck = GetLastUpdateCheck,
                        ![s].read = TRUE]
    /\ UNCHANGED <<toolVars, installVars, Version, platform, clock, lastCheckFile, installedPath, dir, inodes,
                   up, rd, netCalls, rs>>

\* now := time.Now() and the throttle test
CF_Throttle(s) ==
    /\ sc[s].pc = "cf_now"
    /\ sc' = [sc EXCEPT ![s].now = clock,
                        ![s].pc = IF Throttled(sc[s].lastCheck, clock) THEN "done"
                                  ELSE "cf_check"]
    /\ UNCHANGED <<toolVars, installVars, Version, platform, clock, lastCheckFile, installedPath, dir, inodes,
                   up, rd, netCalls, rs>>

\* release, err := updater.CheckLatestRelease()
CF_CheckLatest(s) ==
    /\ sc[s].pc = "cf_check"
    /\ \E resp \in MetaResponses :
          LET r == CheckLatestRelease(resp, platform.os, platform.arch)
          IN  sc' = [sc EXCEPT ![s].pc = "cf_set", ![s].called = TRUE, ![s].resp = resp,
                               ![s].err = r.err,
                               ![s].notifiedVersion = r.release.Version]
    /\ netCalls' = netCalls \cup {[proc |-> s, at |-> clock]}
    /\ UNCHANGED <<toolVars, installVars, Version, platform, clock, lastCheckFile, installedPath, dir, inodes,
                   up, rd, rs>>

\* _ = updater.SetLastUpdateCheck(now) on either branch; after it, on success,
\* the notification when release.Version != Version
CF_SetLast(s) ==
    /\ sc[s].pc = "cf_set"
    /\ SetLastUpdateCheck(sc[s].now)
    /\ sc' = [sc EXCEPT ![s].pc = "done",
                        ![s].notified = (sc[s].err = "none"
                                         /\ sc[s].notifiedVersion # Version)]
    /\ UNCHANGED <<toolVars, installVars, Version, platform, clock, installedPath, dir, inodes,
                   up, rd, netCalls, rs>>

\* time passes
Tick ==
    /\ \E d \in Delays : clock + d <= MaxClock /\ clock' = clock + d
    /\ UNCHANGED <<toolVars, installVars, Version, platform, lastCheckFile, installedPath, dir, inodes,
                   up, rd, sc, netCalls, rs>>

RdOff == [RdInit EXCEPT !.pc = "off"]

\* two invocations of the primary command, started at any moment; the first
\* starts at any fraction of a second
SchedInit ==
    /\ Version \in {V110, V120, dev}
    /\ platform = [os |-> linux, arch |-> amd64]
    /\ clock \in 0..(TicksPerSec - 1)
    /\ lastCheckFile \in {NoFile, Garbage, [kind |-> "time", secs |-> 0]}
    /\ installedPath = ""
    /\ dir = [q \in Paths |-> IF q = ExecPath THEN 1 ELSE 0]
    /\ inodes = <<OldBinary>>
    /\ up = [p \in UProcs |-> UpOff]
    /\ rd = RdOff
    /\ sc = [s \in SProcs |-> ScInit]
    /\ netCalls = {}
    /\ rs = RsOff
    /\ InstallOff

SchedNext ==
    \/ \E s \in SProcs :
          \/ CF_Start(s) \/ CF_GetLast(s) \/ CF_Throttle(s) \/ CF_CheckLatest(s)
          \/ CF_SetLast(s)
    \/ Tick

SchedSpec == SchedInit /\ [][SchedNext]_vars

-----------------------------------------------------------------------------
(* Properties of the Update Scheduler *)

IssuedCheck(s) == sc[s].pc \in {"cf_check", "cf_set"} \/ sc[s].called

TookNow(s) == sc[s].pc \in {"cf_check", "cf_set", "done"} /\ Version # dev

\* C6: of two startup checks run one after the other, the first having called the
\* resolver (with any outcome), the second, taking its time less than one minute
\* after the first took its own, calls the resolver zero times.
C6_SecondCheckThrottled ==
    \A p \in SProcs : \A q \in SProcs :
        /\ p \in sc[q].after /\ sc[p].called
        /\ TookNow(q) /\ sc[q].now - sc[p].now < ThrottleInterval
        => ~IssuedCheck(q)

\* C7: no two startup checks, however the invocations interleave, call the
\* resolver within one throttle interval of each other.
C7_NeverTwoChecksInInterval ==
    \A a \in netCalls : \A b \in netCalls :
        a.proc # b.proc =>
            \/ a.at - b.at >= ThrottleInterval
            \/ b.at - a.at >= ThrottleInterval

\* C7 as amended: a startup check that read from the shared last-check file a
\* timestamp less than one throttle interval before its own clock reading calls
\* the resolver zero times; a check calls it only on a missing or unreadable
\* timestamp or one at least an interval old.
C7_ThrottledByWhatItRead ==
    \A s \in SProcs :
        /\ TookNow(s) /\ ~sc[s].lastCheck.zero
               /\ sc[s].now - sc[s].lastCheck.t < ThrottleInterval
           => ~IssuedCheck(s) /\ sc[s].pc = "done"
        /\ IssuedCheck(s) =>
              \/ sc[s].lastCheck.zero
              \/ sc[s].now - sc[s].lastCheck.t >= ThrottleInterval

\* the second invocation is throttled by the timestamp the first one wrote
C7_Witness ==
    /\ sc["s1"].pc = "done" /\ sc["s1"].called /\ sc["s1"].now = 0
    /\ "s1" \in sc["s2"].after
    /\ sc["s2"].pc = "done" /\ ~sc["s2"].called
    /\ sc["s2"].lastCheck = [zero |-> FALSE, t |-> 0]
    /\ sc["s2"].now = ThrottleInterval - 1

\* C8: when a check has called the resolver, with success or with any error, the
\* last-check file holds the time of that check, so that a check made at any
\* moment less than one interval after it is throttled. (Stated for a check that
\* ran alone, at every later reading of the clock.)
C8_RewrittenSoNextIsThrottled ==
    \A s \in SProcs :
        /\ sc[s].pc = "done" /\ sc[s].called
        /\ \A q \in SProcs \ {s} : sc[q].pc = "idle"
        => /\ lastCheckFile.kind = "time"
           /\ clock - sc[s].now < ThrottleInterval => Throttled(GetLastUpdateCheck, clock)

\* C9: on linux-amd64 with current version 1.1.0, an unthrottled check that is
\* answered with release 1.2.0 (tag "v1.2.0" or "1.2.0") carrying the assets the
\* project publishes resolves it and notifies with version 1.2.0.
C9_NotifiesPublishedRelease ==
    \A s \in SProcs :
        /\ sc[s].pc = "done" /\ sc[s].called
        /\ platform = [os |-> linux, arch |-> amd64] /\ Version = V110
        /\ sc[s].resp \in {Response(StatusOK, PublishedRelease(<<"v">> \o V120)),
                            Response(StatusOK, PublishedRelease(V120))}
        => sc[s].err = "none" /\ sc[s].notified /\ sc[s].notifiedVersion = V120

-----------------------------------------------------------------------------
(* CheckLatestRelease on every response and platform of a bounded set *)

\* longest list of assets in a release
MaxAssets == 2

Tags == {V120, <<"v">> \o V120, <<"v", "v">> \o V120}

Platforms ==
    {[os |-> linux, arch |-> amd64], [os |-> linux, arch |-> arm64],
     [os |-> darwin, arch |-> amd64], [os |-> darwin, arch |-> arm64],
     [os |-> windows, arch |-> amd64]}

\* assets: named with the underscore tag, with a suffix after it, with the dashed
\* tag, with no download URL, and for windows
AssetPool ==
    {Asset(AssetName(sortpathUnderscore, PlatformTag(linux, amd64)), "url-1"),
     Asset(AssetName(sortpathUnderscore, PlatformTag(linux, amd64)) \o <<".", "g", "z">>,
           "url-2"),
     Asset(AssetName(sortpathDash, PlatformTagDashed(linux, amd64)), "url-3"),
     Asset(AssetName(sortpathUnderscore, PlatformTag(linux, amd64)), NoURL),
     Asset(AssetName(sortpathUnderscore, PlatformTag(windows, amd64)), "url-4")}

AssetLists == UNION {[1..n -> AssetPool] : n \in 0..MaxAssets}

ResolveResponses ==
    {TransportFailure}
    \cup {Response(st, Undecodable) : st \in {StatusOK, StatusNotFound}}
    \cup {Response(st, GithubRelease(tag, as)) :
            st \in {StatusOK, StatusNotFound}, tag \in Tags, as \in AssetLists}

ResolveInit ==
    /\ Version = V110
    /\ platform \in Platforms
    /\ clock = 0
    /\ lastCheckFile \in {NoFile, [kind |-> "time", secs |-> 0]}
    /\ installedPath \in {"", ExecPath}
    /\ dir = [q \in Paths |-> IF q = ExecPath THEN 1 ELSE 0]
    /\ inodes = <<OldBinary>>
    /\ up = [p \in UProcs |-> UpOff]
    /\ rd = RdOff
    /\ sc = [s \in SProcs |-> ScOff]
    /\ netCalls = {}
    /\ InstallOff
    /\ \E resp \in ResolveResponses :
          rs = [pc |-> "call", resp |-> resp, result |-> Failed("unset"),
                persisted |-> <<lastCheckFile, installedPath, dir, inodes>>]

\* one call of CheckLatestRelease
RS_Call ==
    /\ rs.pc = "call"
    /\ rs' = [rs EXCEPT !.pc = "returned",
                        !.result = CheckLatestRelease(rs.resp, platform.os, platform.arch)]
    /\ UNCHANGED <<toolVars, installVars, Version, platform, clock, lastCheckFile, installedPath, dir, inodes,
                   up, rd, sc, netCalls>>

ResolveNext == RS_Call

ResolveSpec == ResolveInit /\ [][ResolveNext]_vars

\* the platform tag is part of the asset's name
NameHasTag(a) ==
    LET tag == PlatformTag(platform.os, platform.arch)
    IN  \E i \in 1..Len(a.name) : \E j \in i..Len(a.name) : SubSeq(a.name, i, j) = tag

\* the index of the first asset whose name has the platform tag; 0 when none has
FirstWithTag(as) ==
    IF \A i \in 1..Len(as) : ~NameHasTag(as[i]) THEN 0
    ELSE CHOOSE i \in 1..Len(as) :
            NameHasTag(as[i]) /\ \A j \in 1..(i - 1) : ~NameHasTag(as[j])

WithoutLeadingV(tag) == IF tag # <<>> /\ tag[1] = "v" THEN Tail(tag) ELSE tag

\* what a call returned, given the error it should return
ReturnsAsExpected(expected) ==
    LET body == rs.resp.body
        k == FirstWithTag(body.assets)
    IN  /\ rs.result.err = expected
        /\ expected # "none" => rs.result.release = NoRelease
        /\ expected = "none" =>
              /\ rs.result.release.DownloadURL = body.assets[k].url
              /\ rs.result.release.Version = WithoutLeadingV(body.tag_name)
        /\ rs.persisted = <<lastCheckFile, installedPath, dir, inodes>>

\* C10: CheckLatestRelease returns an error and no release exactly on, tested in
\* this order: a transport failure, a status other than 200, an undecodable body,
\* no asset whose name contains the platform tag; otherwise the URL of the first
\* asset whose name contains the tag and the tag name less its leading "v"; and it
\* writes no persisted state.
C10_ErrorsExactlyFour ==
    rs.pc = "returned" =>
        ReturnsAsExpected(
            IF ~rs.resp.transport THEN "fetch"
            ELSE IF rs.resp.status # StatusOK THEN "status"
            ELSE IF ~rs.resp.body.decodes THEN "decode"
            ELSE IF FirstWithTag(rs.resp.body.assets) = 0 THEN "noasset"
            ELSE "none")

\* C10 as amended: the fourth case is: no asset whose name contains the platform
\* tag, or the first such asset has an empty download URL.
C10_ErrorsWithEmptyURL ==
    rs.pc = "returned" =>
        ReturnsAsExpected(
            IF ~rs.resp.transport THEN "fetch"
            ELSE IF rs.resp.status # StatusOK THEN "status"
            ELSE IF ~rs.resp.body.decodes THEN "decode"
            ELSE IF FirstWithTag(rs.resp.body.assets) = 0 THEN "noasset"
            ELSE IF rs.resp.body.assets[FirstWithTag(rs.resp.body.assets)].url = NoURL
            THEN "noasset"
            ELSE "none")

\* a release whose second asset is the first with the platform tag, the tag name
\* starting with "v"
C10_Witness ==
    /\ rs.pc = "returned" /\ rs.result.err = "none"
    /\ platform = [os |-> linux, arch |-> amd64]
    /\ rs.resp.body.tag_name = <<"v">> \o V120
    /\ FirstWithTag(rs.resp.body.assets) = 2
    /\ rs.result.release = [Version |-> V120, DownloadURL |-> "url-2"]

-----------------------------------------------------------------------------
(* The Binary Installer and the PATH Integrator (cli.HandleInstallCommand) *)
(* File paths, PATH and the shell profile's text are strings; Len, SubSeq  *)
(* and \o read their characters.                                           *)

ProgramName == "sortpath"
DefaultDestDir == "/usr/local/bin"
OtherDestDir == "/o"
HomeDir == "/h"
ExecDir == "/d"

\* the i-th character of s
CharAt(s, i) == SubSeq(s, i, i)

\* filepath.Join(a, b) of two clean elements
Join(a, b) == IF a = "" THEN b ELSE a \o "/" \o b

\* filepath.Dir(p) of a clean path
DirOf(p) ==
    LET slashes == {i \in 1..Len(p) : CharAt(p, i) = "/"}
    IN  IF slashes = {} THEN "."
        ELSE LET k == CHOOSE i \in slashes : \A j \in slashes : j <= i
             IN  IF k = 1 THEN "/" ELSE SubSeq(p, 1, k - 1)

\* filepath.Base(p), as applied to $SHELL
BaseOf(p) ==
    LET slashes == {i \in 1..Len(p) : CharAt(p, i) = "/"}
    IN  IF p = "" THEN "."
        ELSE IF slashes = {} THEN p
        ELSE LET k == CHOOSE i \in slashes : \A j \in slashes : j <= i
             IN  SubSeq(p, k + 1, Len(p))

\* strings.Split(s, sep) for a separator of one character
RECURSIVE Split(_, _)
Split(s, sep) ==
    LET hits == {i \in 1..Len(s) : CharAt(s, i) = sep}
    IN  IF hits = {} THEN <<s>>
        ELSE LET k == CHOOSE i \in hits : \A j \in hits : i <= j
             IN  <<SubSeq(s, 1, k - 1)>> \o Split(SubSeq(s, k + 1, Len(s)), sep)

\* os.Executable() of the running process
SrcPath == Join(ExecDir, ProgramName)

\* variant: any occurrence of dir in $PATH counts
pathContainsDirAnywhere(dirName) == Contains(env.PATH, dirName)

\* for _, p := range strings.Split(pathEnv, ":"): true when some p == dir
pathContainsDir(dirName) ==
    LET entries == Split(env.PATH, ":")
    IN  \E i \in 1..Len(entries) : entries[i] = dirName

\* the mirror of pathContainsDir in package main
cliIsDirInPATH(dirName) ==
    LET entries == Split(env.PATH, ":")
    IN  \E i \in 1..Len(entries) : entries[i] = dirName

\* os.UserHomeDir(), else $HOME
userHomeDir == env.HOME

\* the first of the candidates $HOME/bin, $HOME/.local/bin
userBinFallbackDir == Join(userHomeDir, "bin")

(* Files *)

Absent == [exists |-> FALSE, bytes |-> "", exec |-> FALSE]

NewBinary == "nn"
InstalledBefore == "o"

\* directories: "rw" can be written, "ro" cannot, "absent" can be created,
\* "blocked" is absent under a parent that cannot be written
DirStates == {"rw", "ro", "absent", "blocked"}

\* os.Stat(path) returned no error
StatOK(d, path) == d.files[path].exists

\* os.MkdirAll(dirPath, 0755)
MkdirAll(d, dirPath) ==
    CASE d.dirs[dirPath] = "absent" ->
            [err |-> "none", disk |-> [d EXCEPT !.dirs[dirPath] = "rw"]]
      [] d.dirs[dirPath] = "blocked" -> [err |-> "perm", disk |-> d]
      [] OTHER -> [err |-> "none", disk |-> d]

\* the smaller of two numbers
Min(a, b) == IF a < b THEN a ELSE b

\* os.Open(src); os.MkdirAll(filepath.Dir(dst)); os.Create(dst); io.Copy.
\* Create truncates a file that is there and keeps its mode; the copy stops
\* with an error when the volume is full and leaves what it wrote.
copyFile(d, src, dst) ==
    IF ~d.files[src].exists THEN [err |-> "other", disk |-> d]
    ELSE LET mk == MkdirAll(d, DirOf(dst))
         IN  IF mk.err # "none" THEN [err |-> mk.err, disk |-> mk.disk]
             ELSE IF mk.disk.dirs[DirOf(dst)] = "ro" THEN [err |-> "perm", disk |-> mk.disk]
             ELSE LET avail == d.free + Len(d.files[dst].bytes)
                      data == d.files[src].bytes
                      n == Min(avail, Len(data))
                      written == [exists |-> TRUE, bytes |-> SubSeq(data, 1, n),
                                  exec |-> d.files[dst].exec]
                  IN  [err |-> IF n < Len(data) THEN "other" ELSE "none",
                       disk |-> [mk.disk EXCEPT !.files[dst] = written,
                                                !.free = avail - n]]

\* os.Chmod(path, 0755), its error ignored
Chmod(d, path) ==
    IF d.files[path].exists THEN [d EXCEPT !.files[path].exec = TRUE] ELSE d

(* The PATH Integrator *)

ZshProfile == Join(HomeDir, ".zshrc")
BashProfile == Join(HomeDir, ".bash_profile")
BashRc == Join(HomeDir, ".bashrc")
DotProfile == Join(HomeDir, ".profile")
Profiles == {ZshProfile, BashProfile, BashRc, DotProfile}

\* time.Now().Format(time.RFC3339), as text
Stamp == "T" \o ToString(FormatRFC3339(clock))

\* the comment line and the export line that are appended
Snippet(dirName) ==
    "\n# Added by sortpath on " \o Stamp \o "\nexport PATH=\"" \o dirName \o ":$PATH\"\n"

\* the profile chosen from $SHELL
ProfilePath(d) ==
    LET shell == BaseOf(env.SHELL)
        h == userHomeDir
    IN  CASE shell = "zsh" -> Join(h, ".zshrc")
          [] shell = "bash" -> IF StatOK(d, Join(h, ".bash_profile"))
                               THEN Join(h, ".bash_profile")
                               ELSE Join(h, ".bashrc")
          [] OTHER -> Join(h, ".profile")

\* variant: the profile is not read before the append
addDirToShellPATHNoGuard(d, dirName) ==
    LET pp == ProfilePath(d)
    IN  [profilePath |-> pp, added |-> TRUE, err |-> "none", read |-> FALSE,
         disk |-> [d EXCEPT !.files[pp] =
                       [exists |-> TRUE, bytes |-> d.files[pp].bytes \o Snippet(dirName),
                        exec |-> FALSE],
                            !.free = d.free - Min(d.free, Len(Snippet(dirName)))]]

\* addDirToShellPATH(dir): os.ReadFile and strings.Contains, then os.OpenFile
\* with O_CREATE|O_APPEND|O_WRONLY and f.WriteString(snippet). A profile that
\* cannot be read is taken as one that does not name dir. The open fails
\* when the home directory's files cannot be written; the write stops with an
\* error when the volume is full and leaves what it wrote.
addDirToShellPATH(d, dirName) ==
    LET pp == ProfilePath(d)
        old == d.files[pp]
        snippet == Snippet(dirName)
        n == Min(d.free, Len(snippet))
    IN  IF old.exists /\ pp \notin d.noread /\ Contains(old.bytes, dirName)
        THEN [profilePath |-> pp, added |-> FALSE, err |-> "none", read |-> TRUE, disk |-> d]
        ELSE IF d.dirs[DirOf(pp)] # "rw"
        THEN [profilePath |-> pp, added |-> FALSE, err |-> "open", read |-> TRUE, disk |-> d]
        ELSE [profilePath |-> pp, added |-> (n = Len(snippet)),
              err |-> IF n = Len(snippet) THEN "none" ELSE "write", read |-> TRUE,
              disk |-> [d EXCEPT !.files[pp] =
                            [exists |-> TRUE, bytes |-> old.bytes \o SubSeq(snippet, 1, n),
                             exec |-> FALSE],
                                 !.free = d.free - n]]

\* what a call of addDirToShellPATH saw and did, for the history
CallRecord(d, dirName, r) ==
    [dirName |-> dirName, profilePath |-> r.profilePath, added |-> r.added, err |-> r.err,
     before |-> d.files[r.profilePath], after |-> r.disk.files[r.profilePath],
     snippet |-> Snippet(dirName)]

(* cli.HandleInstallCommand *)

\* the arguments of `install`: --path and --force as given, or their defaults
InstallArgs == [path : {DefaultDestDir, OtherDestDir}, force : BOOLEAN]
NoInstallArgs == [path |-> DefaultDestDir, force |-> FALSE]

InsIdle == [pc |-> "idle", args |-> NoInstallArgs, destDir |-> "", force |-> FALSE,
            srcPath |-> "", destPath |-> "", userDest |-> "", copyErr |-> "unset",
            copyErr2 |-> "unset", onPath |-> FALSE, msg |-> "", start |-> <<>>]

\* the caller enters HandleInstallCommand(args)
InsCalled(args) == [InsIdle EXCEPT !.pc = "parse", !.args = args]

\* os.Exit(1) after a message on stderr: the whole process ends
InsExit(msg) ==
    /\ ins' = [ins EXCEPT !.pc = "exited", !.msg = msg]
    /\ mn' = [mn EXCEPT !.pc = "exited", !.exit = 1]

\* HandleInstallCommand returns to its caller after a message on stdout
InsReturn(msg) ==
    /\ ins' = [ins EXCEPT !.pc = "returned", !.msg = msg]
    /\ UNCHANGED mn

updateVars == <<Version, platform, clock, lastCheckFile, installedPath, dir, inodes,
                up, rd, sc, netCalls, rs>>

\* fs.Parse(args); srcPath := os.Executable(); destPath := Join(destDir, "sortpath")
I_Parse ==
    /\ ins.pc = "parse"
    /\ ins' = [ins EXCEPT !.pc = "stat", !.destDir = ins.args.path,
                          !.force = ins.args.force, !.srcPath = SrcPath,
                          !.destPath = Join(ins.args.path, ProgramName),
                          !.start = <<disk, installedPath>>]
    /\ UNCHANGED <<toolVars, updateVars, env, disk, mn, hist>>

\* variant: the destination is not looked at
I_ForceCheckSkipped ==
    /\ ins.pc = "stat"
    /\ ins' = [ins EXCEPT !.pc = "copy"]
    /\ UNCHANGED <<toolVars, updateVars, env, disk, mn, hist>>

\* if !force { if _, err := os.Stat(destPath); err == nil { ...; os.Exit(1) } }
I_ForceCheck ==
    /\ ins.pc = "stat"
    /\ IF ~ins.force /\ StatOK(disk, ins.destPath)
       THEN InsExit("already_installed")
       ELSE ins' = [ins EXCEPT !.pc = "copy"] /\ UNCHANGED mn
    /\ UNCHANGED <<toolVars, updateVars, env, disk, hist>>

\* copyFile(srcPath, destPath): permission denied leads to the fallback, any
\* other error to os.Exit(1)
I_CopyPrimary ==
    /\ ins.pc = "copy"
    /\ LET r == copyFile(disk, ins.srcPath, ins.destPath)
       IN  /\ disk' = r.disk
           /\ CASE r.err = "none" ->
                     ins' = [ins EXCEPT !.pc = "chmod", !.copyErr = "none"] /\ UNCHANGED mn
                [] r.err = "perm" ->
                     ins' = [ins EXCEPT !.pc = "fallback", !.copyErr = "perm"] /\ UNCHANGED mn
                [] OTHER ->
                     /\ ins' = [ins EXCEPT !.pc = "exited", !.copyErr = r.err,
                                           !.msg = "install_failed"]
                     /\ mn' = [mn EXCEPT !.pc = "exited", !.exit = 1]
    /\ UNCHANGED <<toolVars, updateVars, env, hist>>

\* _ = os.Chmod(destPath, 0755); "Installed sortpath to <destPath>"
I_ChmodPrimary ==
    /\ ins.pc = "chmod"
    /\ disk' = Chmod(disk, ins.destPath)
    /\ InsReturn("installed")
    /\ UNCHANGED <<toolVars, updateVars, env, hist>>

\* fallbackDir := userBinFallbackDir(); _ = os.MkdirAll(fallbackDir, 0755);
\* copyFile(srcPath, userDest); on success _ = os.Chmod(userDest, 0755)
I_Fallback ==
    /\ ins.pc = "fallback"
    /\ LET fallbackDir == userBinFallbackDir
           userDest == Join(fallbackDir, ProgramName)
           mk == MkdirAll(disk, fallbackDir)
           r == copyFile(mk.disk, ins.srcPath, userDest)
       IN  IF fallbackDir = ""
           THEN UNCHANGED disk /\ InsExit("install_failed")
           ELSE IF r.err # "none"
           THEN /\ disk' = r.disk
                /\ ins' = [ins EXCEPT !.pc = "exited", !.userDest = userDest,
                                      !.copyErr2 = r.err, !.msg = "both_failed"]
                /\ mn' = [mn EXCEPT !.pc = "exited", !.exit = 1]
           ELSE /\ disk' = Chmod(r.disk, userDest)
                /\ ins' = [ins EXCEPT !.pc = "pathcheck", !.userDest = userDest,
                                      !.copyErr2 = "none"]
                /\ UNCHANGED mn
    /\ UNCHANGED <<toolVars, updateVars, env, hist>>

\* if !pathContainsDir(fallbackDir) { ... } else { "Installed sortpath to <userDest>" }
I_PathCheck ==
    /\ ins.pc = "pathcheck"
    /\ IF pathContainsDir(userBinFallbackDir)
       THEN ins' = [ins EXCEPT !.pc = "returned", !.onPath = TRUE, !.msg = "installed"]
       ELSE ins' = [ins EXCEPT !.pc = "addpath", !.onPath = FALSE]
    /\ UNCHANGED <<toolVars, updateVars, env, disk, mn, hist>>

\* variant: an error of the profile step ends the command with os.Exit(1)
I_AddPathFatal ==
    /\ ins.pc = "addpath"
    /\ LET r == addDirToShellPATH(disk, userBinFallbackDir)
       IN  /\ disk' = r.disk
           /\ hist' = Append(hist, CallRecord(disk, userBinFallbackDir, r))
           /\ IF r.err # "none" THEN InsExit("profile_failed")
              ELSE InsReturn(IF r.added THEN "installed_added" ELSE "installed_manual")
    /\ UNCHANGED <<toolVars, updateVars, env>>

\* profilePath, added, addErr := addDirToShellPATH(fallbackDir); the message
\* names the profile when addErr == nil && added, else the export line to add
I_AddPath ==
    /\ ins.pc = "addpath"
    /\ LET r == addDirToShellPATH(disk, userBinFallbackDir)
       IN  /\ disk' = r.disk
           /\ hist' = Append(hist, CallRecord(disk, userBinFallbackDir, r))
           /\ InsReturn(IF r.err = "none" /\ r.added THEN "installed_added"
                        ELSE "installed_manual")
    /\ UNCHANGED <<toolVars, updateVars, env>>

-----------------------------------------------------------------------------
(* main(): the install subcommand and the primary command with its startup *)
(* prompt and its background update check                                  *)

UpperCase == "ABCDEFGHIJKLMNOPQRSTUVWXYZ"
LowerCase == "abcdefghijklmnopqrstuvwxyz"

\* strings.ToLower
RECURSIVE ToLower(_)
ToLower(s) ==
    IF s = "" THEN ""
    ELSE LET c == CharAt(s, 1)
             at == {i \in 1..Len(UpperCase) : CharAt(UpperCase, i) = c}
         IN  (IF at = {} THEN c ELSE CharAt(LowerCase, CHOOSE i \in at : TRUE))
             \o ToLower(SubSeq(s, 2, Len(s)))

IsSpace(c) == c \in {" ", "\t", "\n", "\r"}

\* strings.TrimSpace
RECURSIVE TrimSpace(_)
TrimSpace(s) ==
    IF s = "" THEN ""
    ELSE IF IsSpace(CharAt(s, 1)) THEN TrimSpace(SubSeq(s, 2, Len(s)))
    ELSE IF IsSpace(CharAt(s, Len(s))) THEN TrimSpace(SubSeq(s, 1, Len(s) - 1))
    ELSE s

\* EnvironmentDetector.IsNonInteractive: stdin is not a character device, a CI
\* variable is set to something other than "false", a container, or TERM is
\* unset or "dumb"
IsNonInteractive ==
    \/ env.stdin = "pipe"
    \/ env.CI # "" /\ ToLower(env.CI) # "false"
    \/ env.container
    \/ env.TERM = "" \/ env.TERM = "dumb"

\* what the user types at the prompt, up to and including the newline; ""
\* is end of input
Answers == {"\n", "y\n", "Yes\n", " Y \n", "yes", "YES\r\n", "n\n", "no\n", "yeah\n", ""}

\* the results of the recommendation itself
PrimaryOutcomes == {"ok", "missing_description", "config_error", "tree_error", "api_error"}

MnStart(cmd) == [pc |-> "start", cmd |-> cmd, exit |-> -1, prompted |-> FALSE,
                 stdinRead |-> FALSE, answer |-> "", installCalls |-> 0, spawned |-> 0,
                 result |-> "none", stdout |-> "none", dirInPath |-> "unset",
                 raw |-> "unset"]

\* if args[0] == "install" { cli.HandleInstallCommand(args[1:]); return }
M_InstallCommand ==
    /\ mn.pc = "start" /\ mn.cmd = "install"
    /\ \E a \in InstallArgs : ins' = InsCalled(a)
    /\ mn' = [mn EXCEPT !.pc = "install_cmd", !.installCalls = mn.installCalls + 1]
    /\ UNCHANGED <<toolVars, updateVars, env, disk, hist>>

\* HandleInstallCommand returned: main returns, the exit code is 0
M_InstallReturned ==
    /\ mn.pc = "install_cmd" /\ ins.pc = "returned"
    /\ mn' = [mn EXCEPT !.pc = "exited", !.exit = 0]
    /\ UNCHANGED <<toolVars, updateVars, env, disk, ins, hist>>

\* maybePromptInstall up to the prompt: os.Executable, cliIsDirInPATH(execDir),
\* then fi, _ := os.Stdin.Stat() and the ModeCharDevice test. With stdin
\* closed Stat fails, fi is nil and fi.Mode() panics: exit code 2.
M_MaybePrompt ==
    /\ mn.pc = "start" /\ mn.cmd = "primary"
    /\ IF cliIsDirInPATH(DirOf(SrcPath))
       THEN mn' = [mn EXCEPT !.pc = "go_check", !.dirInPath = "yes"]
       ELSE IF env.stdin = "closed"
       THEN mn' = [mn EXCEPT !.pc = "exited", !.exit = 2, !.dirInPath = "no"]
       ELSE IF env.stdin # "tty"
       THEN mn' = [mn EXCEPT !.pc = "go_check", !.dirInPath = "no"]
       ELSE mn' = [mn EXCEPT !.pc = "prompt", !.prompted = TRUE, !.dirInPath = "no"]
    /\ UNCHANGED <<toolVars, updateVars, env, disk, ins, hist>>

\* variant: the answer is compared as typed, without ToLower
M_ReadAnswerAsTyped ==
    /\ mn.pc = "prompt"
    /\ \E raw \in Answers :
          LET answer == TrimSpace(raw)
          IN  IF answer = "" \/ answer = "y" \/ answer = "yes"
              THEN /\ ins' = InsCalled(NoInstallArgs)
                   /\ mn' = [mn EXCEPT !.pc = "prompt_install", !.stdinRead = TRUE,
                                       !.answer = "accepted", !.raw = raw,
                                       !.installCalls = mn.installCalls + 1]
              ELSE /\ mn' = [mn EXCEPT !.pc = "go_check", !.stdinRead = TRUE,
                                       !.answer = "declined", !.raw = raw]
                   /\ UNCHANGED ins
    /\ UNCHANGED <<toolVars, updateVars, env, disk, hist>>

\* answer, _ := reader.ReadString('\n'); TrimSpace(ToLower(answer)); on "", "y"
\* or "yes" cli.HandleInstallCommand([]string{})
M_ReadAnswer ==
    /\ mn.pc = "prompt"
    /\ \E raw \in Answers :
          LET answer == TrimSpace(ToLower(raw))
          IN  IF answer = "" \/ answer = "y" \/ answer = "yes"
              THEN /\ ins' = InsCalled(NoInstallArgs)
                   /\ mn' = [mn EXCEPT !.pc = "prompt_install", !.stdinRead = TRUE,
                                       !.answer = "accepted", !.raw = raw,
                                       !.installCalls = mn.installCalls + 1]
              ELSE /\ mn' = [mn EXCEPT !.pc = "go_check", !.stdinRead = TRUE,
                                       !.answer = "declined", !.raw = raw]
                   /\ UNCHANGED ins
    /\ UNCHANGED <<toolVars, updateVars, env, disk, hist>>

\* HandleInstallCommand returned into maybePromptInstall, which returns
M_PromptInstallReturned ==
    /\ mn.pc = "prompt_install" /\ ins.pc = "returned"
    /\ mn' = [mn EXCEPT !.pc = "go_check"]
    /\ UNCHANGED <<toolVars, updateVars, env, disk, ins, hist>>

\* if Version != "dev" { go checkForUpdates() }
M_GoCheck ==
    /\ mn.pc = "go_check"
    /\ IF Version # dev
       THEN /\ sc' = [sc EXCEPT !["s1"] = ScInit]
            /\ mn' = [mn EXCEPT !.pc = "primary", !.spawned = mn.spawned + 1]
       ELSE /\ mn' = [mn EXCEPT !.pc = "primary"]
            /\ UNCHANGED sc
    /\ UNCHANGED <<toolVars, Version, platform, clock, lastCheckFile, installedPath, dir, inodes,
                   up, rd, netCalls, rs, env, disk, ins, hist>>

\* variant: main waits for the background check before it goes on
M_PrimaryAwaits ==
    /\ mn.pc = "primary"
    /\ sc["s1"].pc \in {"off", "done"}
    /\ \E o \in PrimaryOutcomes :
          mn' = [mn EXCEPT !.pc = "exited", !.result = o,
                           !.stdout = IF o = "ok" THEN "recommendation" ELSE "none",
                           !.exit = IF o = "ok" THEN 0 ELSE 1]
    /\ UNCHANGED <<toolVars, updateVars, env, disk, ins, hist>>

\* ParseArgs, ResolveConfig, fs.Tree, BuildPrompt, QueryLLM: the recommendation
\* is printed and main returns, or a message goes to stderr and os.Exit(1)
M_Primary ==
    /\ mn.pc = "primary"
    /\ \E o \in PrimaryOutcomes :
          mn' = [mn EXCEPT !.pc = "exited", !.result = o,
                           !.stdout = IF o = "ok" THEN "recommendation" ELSE "none",
                           !.exit = IF o = "ok" THEN 0 ELSE 1]
    /\ UNCHANGED <<toolVars, updateVars, env, disk, ins, hist>>

\* the goroutine runs while the process lives
Alive == mn.pc \notin {"exited", "off"}

(* The environments and disks an invocation starts in *)

FallbackDir == Join(HomeDir, "bin")
DefaultDest == Join(DefaultDestDir, ProgramName)
OtherDest == Join(OtherDestDir, ProgramName)
FallbackDest == Join(FallbackDir, ProgramName)

DirPaths == {DefaultDestDir, OtherDestDir, HomeDir, FallbackDir, ExecDir}
FilePaths == {SrcPath, DefaultDest, OtherDest, FallbackDest} \cup Profiles

\* free space, in bytes: none, one byte, or more than is ever written
Plenty == 1000
FreeChoices == {0, 1, Plenty}

\* a profile that already exports the fallback directory
ExportingProfile == "export PATH=\"/h/bin:$PATH\"\n"

PathNeither == "/usr/local/bin:/usr/bin"
PathWithFallback == "/usr/bin:/h/bin"
PathWithExecDir == "/d:/usr/bin"
PathNearMisses == "/h/bin/x:/x/h/bin:/h/b:/dd:/x/d"
PATHs == {PathNeither, PathWithFallback, PathWithExecDir, PathNearMisses}

Interactive == [stdin |-> "tty", CI |-> "", container |-> FALSE, TERM |-> "xterm"]
Contexts ==
    {Interactive,
     [Interactive EXCEPT !.CI = "true"],
     [Interactive EXCEPT !.CI = "FALSE"],
     [Interactive EXCEPT !.container = TRUE],
     [Interactive EXCEPT !.TERM = "dumb"],
     [Interactive EXCEPT !.stdin = "pipe"],
     [Interactive EXCEPT !.stdin = "closed"]}

EnvOf(ctx, path, shell) ==
    [PATH |-> path, SHELL |-> shell, HOME |-> HomeDir, stdin |-> ctx.stdin, CI |-> ctx.CI,
     container |-> ctx.container, TERM |-> ctx.TERM]

Binary(b) == [exists |-> TRUE, bytes |-> b, exec |-> TRUE]
Text(b) == [exists |-> TRUE, bytes |-> b, exec |-> FALSE]

\* the running binary in its directory; an earlier binary at the default and
\* at the fallback destination or none; every profile with the same content
DiskOf(defaultDir, homeDir, fallbackDir, atDefault, atFallback, free, profile) ==
    [dirs |-> [q \in DirPaths |->
                  CASE q = DefaultDestDir -> defaultDir
                    [] q = HomeDir -> homeDir
                    [] q = FallbackDir ->
                          IF fallbackDir = "absent" /\ homeDir = "ro" THEN "blocked"
                          ELSE fallbackDir
                    [] q = OtherDestDir -> "absent"
                    [] OTHER -> "rw"],
     files |-> [q \in FilePaths |->
                  CASE q = SrcPath -> Binary(NewBinary)
                    [] q = DefaultDest -> IF atDefault THEN Binary(InstalledBefore) ELSE Absent
                    [] q = FallbackDest ->
                          IF atFallback /\ fallbackDir # "absent"
                          THEN Binary(InstalledBefore) ELSE Absent
                    [] q \in Profiles -> profile
                    [] OTHER -> Absent],
     free |-> free,
     noread |-> {}]

Disks ==
    {DiskOf(a, b, c, e, f, g, h) :
        a \in {"rw", "ro"}, b \in {"rw", "ro"}, c \in {"absent", "rw", "ro"},
        e \in BOOLEAN, f \in BOOLEAN, g \in FreeChoices,
        h \in {Absent, Text(ExportingProfile)}}

PrimaryDisks ==
    {DiskOf(a, "rw", c, e, FALSE, g, Absent) :
        a \in {"rw", "ro"}, c \in {"absent", "ro"}, e \in BOOLEAN, g \in {0, Plenty}}

\* `sortpath install ...` from a terminal
InstallScenario ==
    /\ Version = V110
    /\ lastCheckFile = NoFile
    /\ installedPath \in {"", FallbackDest}
    /\ env \in {EnvOf(Interactive, q, s) : q \in PATHs, s \in {"/bin/zsh", ""}}
    /\ disk \in Disks
    /\ mn = MnStart("install")

\* `sortpath "<description>"` in any context
PrimaryScenario ==
    /\ Version \in {V110, dev}
    /\ lastCheckFile \in {NoFile, Garbage, [kind |-> "time", secs |-> 0]}
    /\ installedPath = ""
    /\ env \in {EnvOf(c, q, "/bin/zsh") : c \in Contexts, q \in {PathNeither, PathWithExecDir}}
    /\ disk \in PrimaryDisks
    /\ mn = MnStart("primary")

MainInit ==
    /\ platform = [os |-> linux, arch |-> amd64]
    /\ clock = 0
    /\ dir = [q \in Paths |-> IF q = ExecPath THEN 1 ELSE 0]
    /\ inodes = <<OldBinary>>
    /\ up = [p \in UProcs |-> UpOff]
    /\ rd = RdOff
    /\ sc = [s \in SProcs |-> ScOff]
    /\ netCalls = {}
    /\ rs = RsOff
    /\ ins = InsIdle
    /\ hist = <<>>
    /\ ToolOff
    /\ InstallScenario \/ PrimaryScenario

MainNext ==
    \/ M_InstallCommand \/ M_InstallReturned
    \/ M_MaybePrompt \/ M_ReadAnswer \/ M_PromptInstallReturned
    \/ M_GoCheck \/ M_Primary
    \/ I_Parse \/ I_ForceCheck \/ I_CopyPrimary \/ I_ChmodPrimary
    \/ I_Fallback \/ I_PathCheck \/ I_AddPath
    \/ (Alive /\ CF_Start("s1"))
    \/ (Alive /\ CF_GetLast("s1"))
    \/ (Alive /\ CF_Throttle("s1"))
    \/ (Alive /\ CF_CheckLatest("s1"))
    \/ (Alive /\ CF_SetLast("s1"))

MainSpec == MainInit /\ [][MainNext]_vars

-----------------------------------------------------------------------------
(* addDirToShellPATH called repeatedly in one environment *)

MaxCalls == 3
MaxStamp == 1

OtherFallbackDir == Join(Join(HomeDir, ".local"), "bin")

\* the free space that ends an append right after the directory's text
FreeUpToDir == Len("\n# Added by sortpath on T0\nexport PATH=\"") + Len(FallbackDir)

ProfileTexts ==
    {Absent, Text(""), Text(ExportingProfile), Text("# tools live in /h/binaries\n"),
     Text("export PATH=\"/opt/bin:$PATH\"\n")}

PathInit ==
    /\ Version = V110
    /\ platform = [os |-> linux, arch |-> amd64]
    /\ clock = 0
    /\ lastCheckFile = NoFile
    /\ installedPath = ""
    /\ dir = [q \in Paths |-> IF q = ExecPath THEN 1 ELSE 0]
    /\ inodes = <<OldBinary>>
    /\ up = [p \in UProcs |-> UpOff]
    /\ rd = RdOff
    /\ sc = [s \in SProcs |-> ScOff]
    /\ netCalls = {}
    /\ rs = RsOff
    /\ mn = [pc |-> "off"]
    /\ ins = [pc |-> "off"]
    /\ hist = <<>>
    /\ ToolOff
    /\ env \in {EnvOf(Interactive, PathNeither, s) : s \in {"/bin/zsh", "/usr/bin/bash", "/bin/sh", ""}}
    /\ \E homeDir \in {"rw", "ro"}, free \in FreeChoices \cup {FreeUpToDir},
          text \in ProfileTexts, bashProfile \in {Absent, Text("")}, noread \in BOOLEAN :
          LET d == DiskOf("rw", homeDir, "rw", FALSE, FALSE, free, text)
          IN  disk = [d EXCEPT !.files[BashProfile] = bashProfile,
                               !.noread = IF noread /\ text # Absent THEN Profiles ELSE {}]

\* one call of addDirToShellPATH(dir)
EP_Call ==
    /\ Len(hist) < MaxCalls
    /\ \E dirName \in {FallbackDir, OtherFallbackDir} :
          LET r == addDirToShellPATH(disk, dirName)
          IN  /\ disk' = r.disk
              /\ hist' = Append(hist, CallRecord(disk, dirName, r))
    /\ UNCHANGED <<toolVars, updateVars, env, mn, ins>>

\* a second passes between two calls
EP_Tick ==
    /\ clock < MaxStamp * TicksPerSec
    /\ clock' = clock + TicksPerSec
    /\ UNCHANGED <<toolVars, Version, platform, lastCheckFile, installedPath, dir, inodes,
                   up, rd, sc, netCalls, rs, installVars>>

PathNext == EP_Call \/ EP_Tick

PathSpec == PathInit /\ [][PathNext]_vars

-----------------------------------------------------------------------------
(* Properties of the Binary Installer *)

\* the disk and the install state as HandleInstallCommand found them
DiskAtStart == ins.start[1]
InstalledPathAtStart == ins.start[2]

\* HandleInstallCommand is past its test of the destination
PastForceCheck == ins.pc \in {"copy", "chmod", "fallback", "pathcheck", "addpath",
                              "returned", "exited"}

\* the profiles are as HandleInstallCommand found them
ProfilesUntouched == \A q \in Profiles : disk.files[q] = DiskAtStart.files[q]

\* C11: install without --force, when a file is already at <destDir>/sortpath,
\* ends with the already-installed message and exit code 1; the file keeps its
\* bytes, nothing is copied anywhere and no install state is written.
C11_ExistingDestinationRefused ==
    (PastForceCheck /\ ~ins.force /\ DiskAtStart.files[ins.destPath].exists)
    => /\ ins.pc = "exited" /\ ins.msg = "already_installed"
       /\ mn.pc = "exited" /\ mn.exit = 1
       /\ disk = DiskAtStart
       /\ installedPath = InstalledPathAtStart
       /\ hist = <<>>

C11_Witness ==
    /\ ins.msg = "already_installed" /\ ~ins.force
    /\ ins.destPath = DefaultDest
    /\ disk.files[DefaultDest].bytes = InstalledBefore

\* C12: when the copy to the primary destination is refused for lack of
\* permission and the retry in the fallback directory succeeds, the command
\* succeeds, the fallback directory exists and the persisted install path is
\* <fallbackDir>/sortpath.
C12_FallbackRecorded ==
    (ins.pc = "returned" /\ ins.copyErr = "perm" /\ ins.copyErr2 = "none")
    => /\ (mn.cmd = "install" => mn.exit \in {-1, 0})
       /\ disk.dirs[FallbackDir] \in {"rw", "ro"}
       /\ disk.files[ins.userDest].exists
       /\ ins.userDest = Join(FallbackDir, ProgramName)
       /\ installedPath = ins.userDest

\* C13: after the copy to the primary destination succeeded, the persisted
\* install path is non-empty and is <destDir>/sortpath, and no profile changed.
C13_PrimaryRecorded ==
    (ins.pc = "returned" /\ ins.copyErr = "none")
    => /\ installedPath # ""
       /\ installedPath = ins.destPath
       /\ ProfilesUntouched
       /\ hist = <<>>

\* C14: when the primary copy and the retry in the fallback directory both
\* fail, the command exits non-zero, the install state and the profiles are
\* unchanged, and the primary and the fallback destination hold what they held.
C14_BothFailedLeavesNothing ==
    (ins.pc = "exited" /\ ins.msg = "both_failed")
    => /\ mn.pc = "exited" /\ mn.exit # 0
       /\ installedPath = InstalledPathAtStart
       /\ ProfilesUntouched
       /\ disk.files[ins.destPath] = DiskAtStart.files[ins.destPath]
       /\ disk.files[ins.userDest] = DiskAtStart.files[ins.userDest]

-----------------------------------------------------------------------------
(* Properties of the PATH Integrator *)

\* the profile of the i-th call could be read, or was not there
Readable(i) == ~hist[i].before.exists \/ hist[i].profilePath \notin disk.noread

\* the i-th call found the directory's text in the profile
AlreadyNamed(i) ==
    hist[i].before.exists /\ Contains(hist[i].before.bytes, hist[i].dirName)

\* the i-th call appended its whole snippet and nothing else
AppendedOnce(i) == hist[i].after.bytes = hist[i].before.bytes \o hist[i].snippet

IsEntry(path, dirName) ==
    /\ ~Contains(dirName, ":")
    /\ \E i \in 1..(Len(path) + 1) :
          /\ i = 1 \/ CharAt(path, i - 1) = ":"
          /\ i + Len(dirName) - 1 <= Len(path)
          /\ SubSeq(path, i, i + Len(dirName) - 1) = dirName
          /\ i + Len(dirName) - 1 = Len(path) \/ CharAt(path, i + Len(dirName)) = ":"

\* HandleInstallCommand has tested the fallback directory against PATH
PathTested == ins.pc = "addpath" \/ (ins.pc = "returned" /\ ins.copyErr = "perm")

\* C16: a directory counts as on PATH exactly when some ':'-separated entry of
\* PATH equals it, in the install flow and in the startup prompt alike; when
\* the fallback directory is on PATH the install flow neither reads nor
\* changes a profile.
C16_ExactEntryOnly ==
    /\ PathTested => (ins.onPath <=> IsEntry(env.PATH, FallbackDir))
    /\ mn.dirInPath # "unset" => (mn.dirInPath = "yes" <=> IsEntry(env.PATH, ExecDir))
    /\ (PathTested /\ ins.onPath) => (hist = <<>> /\ ProfilesUntouched)

C16_Witness ==
    /\ ins.pc = "returned" /\ ins.copyErr = "perm" /\ ins.onPath
    /\ env.PATH = PathWithFallback
    /\ hist = <<>> /\ disk.files[FallbackDest].bytes = NewBinary

-----------------------------------------------------------------------------
(* Properties of the Install Orchestrator and of the background check *)

\* C18: the prompt is reached only when the executable's directory is not on
\* PATH and stdin is a terminal; in a non-interactive context (stdin
\* redirected, CI, container; a terminal of its own is set in TERM) there is
\* no prompt, nothing is read from stdin and no install is attempted.
C18_PromptOnlyWhenInteractive ==
    mn.cmd = "primary"
    => /\ mn.prompted => (mn.dirInPath = "no" /\ env.stdin = "tty")
       /\ (IsNonInteractive /\ env.TERM \notin {"", "dumb"})
          => (~mn.prompted /\ ~mn.stdinRead /\ mn.installCalls = 0)

\* C19: when the install entered from the prompt fails, the primary command
\* still runs to its own result.
C19_InstallFailureNotFatal ==
    (mn.cmd = "primary" /\ mn.installCalls > 0 /\ mn.pc = "exited")
    => mn.result # "none"

\* the background check takes a step
CheckSteps == sc["s1"].pc # "off" /\ sc' # sc

C20_State ==
    /\ mn.spawned <= 1
    /\ sc["s2"].pc = "off"
    /\ mn.pc = "primary" => ENABLED M_Primary
    /\ (mn.pc = "exited" /\ mn.result # "none")
       => /\ mn.exit = (IF mn.result = "ok" THEN 0 ELSE 1)
          /\ mn.stdout = (IF mn.result = "ok" THEN "recommendation" ELSE "none")

C20_Frame ==
    CheckSteps => UNCHANGED <<mn, ins, env, disk, hist, installedPath, dir, inodes, Version>>

\* C20: an invocation starts at most one background check; main never waits
\* for it; no step of it, whatever the resolver and the timestamp file do,
\* ends the process or touches main's output or exit code: it changes only
\* its own state and the last-check file.
C20_BackgroundCheckDetached == [](C20_State) /\ [][C20_Frame]_vars

C20_Witness ==
    /\ mn.pc = "exited" /\ mn.result = "ok" /\ mn.exit = 0 /\ mn.spawned = 1
    /\ sc["s1"].pc = "cf_set" /\ sc["s1"].err # "none"

-----------------------------------------------------------------------------
(* Two `sortpath update` commands started on the same executable: both are in *)
(* UpdateBinary at the same time                                              *)

\* an update command at its call of updater.UpdateBinary(release)
UpInUpdateBinary == [UpInit EXCEPT !.pc = "ub_exec"]

TwoUpdatesInit ==
    /\ Version = V110
    /\ platform = [os |-> linux, arch |-> amd64]
    /\ clock = 0
    /\ lastCheckFile = NoFile
    /\ installedPath = ExecPath
    /\ \/ /\ dir = [q \in Paths |-> IF q = ExecPath THEN 1 ELSE 0]
          /\ inodes = <<OldBinary>>
       \/ /\ dir = [q \in Paths |-> IF q = ExecPath THEN 1
                                   ELSE IF q = TmpPath(ExecPath) THEN 2 ELSE 0]
          /\ inodes = <<OldBinary, StaleTmp>>
    /\ up = [p \in UProcs |-> UpInUpdateBinary]
    /\ rd = RdOff
    /\ sc = [s \in SProcs |-> ScOff]
    /\ netCalls = {}
    /\ rs = RsOff
    /\ InstallOff

TwoUpdatesNext ==
    \E p \in UProcs :
       \/ UB_Executable(p) \/ UB_Get(p) \/ UB_Open(p) \/ UB_Copy(p) \/ UB_CopyDone(p)
       \/ UB_Verify(p) \/ UB_Rename(p) \/ UB_DeferRemove(p) \/ UB_DeferClose(p)
       \/ UC_Result(p)

TwoUpdatesSpec == TwoUpdatesInit /\ [][TwoUpdatesNext]_vars

-----------------------------------------------------------------------------
(* `sortpath update` run from an executable that is not the recorded install: *)
(* config.yaml names $HOME/bin/sortpath, the process was started from         *)
(* /usr/local/bin/sortpath                                                    *)

ElsewhereInit ==
    /\ Version \in {V110, V120}
    /\ platform = [os |-> linux, arch |-> amd64]
    /\ clock = 0
    /\ lastCheckFile = NoFile
    /\ installedPath = InstalledElsewhere
    /\ \/ /\ dir = [q \in Paths |-> IF q = ExecPath THEN 1
                                   ELSE IF q = InstalledElsewhere THEN 2 ELSE 0]
          /\ inodes = <<OldBinary, OldBinary>>
       \/ /\ dir = [q \in Paths |-> IF q = ExecPath THEN 1
                                   ELSE IF q = InstalledElsewhere THEN 2
                                   ELSE IF q = TmpPath(ExecPath) THEN 3 ELSE 0]
          /\ inodes = <<OldBinary, OldBinary, StaleTmp>>
    /\ up = [p \in UProcs |-> IF p = "u1" THEN UpInit ELSE UpOff]
    /\ rd = RdInit
    /\ sc = [s \in SProcs |-> ScOff]
    /\ netCalls = {}
    /\ rs = RsOff
    /\ InstallOff

ElsewhereSpec == ElsewhereInit /\ [][Next]_vars

-----------------------------------------------------------------------------
(* Platform Identifier: detect_platform of install.sh and the platform     *)
(* string of updater.CheckLatestRelease                                    *)

freebsd == <<"f", "r", "e", "e", "b", "s", "d">>
arch386 == <<"3", "8", "6">>

\* the update, check, install and main processes are not part of the run
ProgramOff ==
    /\ Version = V110
    /\ clock = 0
    /\ lastCheckFile = NoFile
    /\ installedPath = ""
    /\ dir = [q \in Paths |-> IF q = ExecPath THEN 1 ELSE 0]
    /\ inodes = <<OldBinary>>
    /\ up = [p \in UProcs |-> UpOff]
    /\ rd = RdOff
    /\ sc = [s \in SProcs |-> ScOff]
    /\ netCalls = {}
    /\ rs = RsOff
    /\ env = [PATH |-> "", SHELL |-> "", HOME |-> "", stdin |-> "pipe", CI |-> "",
              container |-> FALSE, TERM |-> ""]
    /\ disk = [files |-> <<>>, dirs |-> <<>>, free |-> 0, noread |-> {}]
    /\ mn = [pc |-> "off"]
    /\ ins = [pc |-> "off"]
    /\ hist = <<>>

\* log_error: echo of the message, to standard output (colour escapes left out)
log_error(msg) == "[ERROR] " \o msg \o "\n"

\* detect_platform: exit status and standard output for given `uname -s`, `uname -m`
detect_platform(unameS, unameM) ==
    LET os == IF HasPrefix(unameS, "Linux") THEN "linux"
              ELSE IF HasPrefix(unameS, "Darwin") THEN "darwin"
              ELSE IF \/ HasPrefix(unameS, "CYGWIN") \/ HasPrefix(unameS, "MINGW")
                      \/ HasPrefix(unameS, "MSYS") THEN "windows"
              ELSE ""
        arch == IF unameM = "x86_64" \/ unameM = "amd64" THEN "amd64"
                ELSE IF unameM = "arm64" \/ unameM = "aarch64" THEN "arm64"
                ELSE ""
    IN  IF os = ""
        THEN [status |-> 1, stdout |-> log_error("Unsupported operating system: " \o unameS)]
        ELSE IF arch = ""
        THEN [status |-> 1, stdout |-> log_error("Unsupported architecture: " \o unameM)]
        ELSE [status |-> 0, stdout |-> os \o "-" \o arch \o "\n"]

\* $(...): the output of the command without its trailing newline
CommandSubstitution(out) ==
    IF Len(out) > 0 /\ SubSeq(out, Len(out), Len(out)) = "\n"
    THEN SubSeq(out, 1, Len(out) - 1) ELSE out

\* download_binary: the URL built from version and platform
DownloadURL(version, plat) ==
    "https://github.com/kacperkwapisz/sortpath/releases/download/" \o version
    \o "/sortpath-" \o plat \o (IF HasPrefix(plat, "windows-") THEN ".exe" ELSE "")

UnameS == {"Linux", "Darwin", "CYGWIN_NT-10.0", "MINGW64_NT-10.0", "MSYS_NT-10.0",
           "FreeBSD", "SunOS"}

UnameM == {"x86_64", "amd64", "arm64", "aarch64", "i686", "armv7l"}

\* GOOS/GOARCH pairs a binary can be compiled for: those the Makefile builds,
\* windows/arm64, and two others
GoPlatforms ==
    Platforms \cup {[os |-> windows, arch |-> arm64], [os |-> freebsd, arch |-> amd64],
                    [os |-> linux, arch |-> arch386]}

\* latest releases: assets named as the Makefile builds them, named with the
\* underscore, and one with a freebsd asset
PlatformReleases ==
    {Response(StatusOK, GithubRelease(<<"v">> \o V120, as)) : as \in
       {<<Asset(AssetName(sortpathDash, PlatformTagDashed(linux, amd64)), "url-d1"),
          Asset(AssetName(sortpathDash, PlatformTagDashed(windows, amd64)), "url-d2")>>,
        <<Asset(AssetName(sortpathUnderscore, PlatformTag(linux, amd64)), "url-u1"),
          Asset(AssetName(sortpathUnderscore, PlatformTag(darwin, arm64)), "url-u2")>>,
        <<Asset(AssetName(sortpathUnderscore, PlatformTag(freebsd, amd64)), "url-f")>>}}

PidStart(unameS, unameM) ==
    [pc |-> "on", unameS |-> unameS, unameM |-> unameM,
     sh |-> "start", shPlatform |-> "", shURL |-> "",
     go |-> "start", goPlatform |-> <<>>, goErr |-> "none", goURL |-> NoURL]

PlatformInit ==
    /\ ProgramOff
    /\ rc = [pc |-> "off"] /\ pa = [pc |-> "off"] /\ cf = [pc |-> "off"]
    /\ platform \in GoPlatforms
    /\ \E unameS \in UnameS, unameM \in UnameM : pid = PidStart(unameS, unameM)

\* main of install.sh: platform=$(detect_platform) under `set -e`
SH_DetectPlatform ==
    /\ pid.pc = "on" /\ pid.sh = "start"
    /\ LET r == detect_platform(pid.unameS, pid.unameM)
       IN  pid' = IF r.status # 0 THEN [pid EXCEPT !.sh = "exit1"]
                  ELSE [pid EXCEPT !.sh = "detected",
                                   !.shPlatform = CommandSubstitution(r.stdout)]
    /\ UNCHANGED <<installVars, updateVars, rc, pa, cf>>

\* main of install.sh: download_binary "$version" "$platform"
SH_DownloadBinary ==
    /\ pid.pc = "on" /\ pid.sh = "detected"
    /\ pid' = [pid EXCEPT !.sh = "download", !.shURL = DownloadURL("v1.2.0", pid.shPlatform)]
    /\ UNCHANGED <<installVars, updateVars, rc, pa, cf>>

\* CheckLatestRelease in a binary compiled for `platform`
GO_CheckLatestRelease ==
    /\ pid.pc = "on" /\ pid.go = "start"
    /\ \E resp \in PlatformReleases :
          LET r == CheckLatestRelease(resp, platform.os, platform.arch)
          IN  pid' = [pid EXCEPT !.go = "returned",
                                 !.goPlatform = PlatformTag(platform.os, platform.arch),
                                 !.goErr = r.err, !.goURL = r.release.DownloadURL]
    /\ UNCHANGED <<installVars, updateVars, rc, pa, cf>>

PlatformNext == SH_DetectPlatform \/ SH_DownloadBinary \/ GO_CheckLatestRelease

PlatformSpec == PlatformInit /\ [][PlatformNext]_vars

-----------------------------------------------------------------------------
(* Configuration resolution: config.ResolveConfigWithLoader, Config.Validate *)

Fields == {"APIKey", "APIBase", "Model", "TreePath", "LogLevel"}

\* var defaults; the API key has none
defaults ==
    [APIKey |-> "", APIBase |-> "https://api.openai.com/v1", Model |-> "gpt-3.5-turbo",
     TreePath |-> ".", LogLevel |-> "info"]

\* &Config{}
EmptyConfig == [APIKey |-> "", APIBase |-> "", Model |-> "", TreePath |-> "", LogLevel |-> ""]

\* the environment variable consulted for each field
EnvVar ==
    [APIKey |-> "OPENAI_API_KEY", APIBase |-> "OPENAI_API_BASE", Model |-> "OPENAI_MODEL",
     TreePath |-> "SORTPATH_FOLDER_TREE", LogLevel |-> "SORTPATH_LOG_LEVEL"]

\* variant: the environment variable is consulted before the flag
resolveValueEnvFirst(cli, envVal, file, defaultVal) ==
    IF envVal # "" THEN envVal
    ELSE IF cli # "" THEN cli
    ELSE IF file # "" THEN file
    ELSE defaultVal

\* resolveValue(cli, env, file, defaultVal)
resolveValue(cli, envVal, file, defaultVal) ==
    IF cli # "" THEN cli
    ELSE IF envVal # "" THEN envVal
    ELSE IF file # "" THEN file
    ELSE defaultVal

\* url.Parse(u).Scheme: the text before the first ":", in lower case
Scheme(u) ==
    LET colons == {i \in 1..Len(u) : CharAt(u, i) = ":"}
    IN  IF colons = {} THEN ""
        ELSE ToLower(SubSeq(u, 1, (CHOOSE i \in colons : \A j \in colons : i <= j) - 1))

\* Config.Validate: the first check that fails, "none" when all pass; dirs are
\* the directories os.Stat finds
Validate(c, dirs) ==
    IF c.APIKey = "" THEN "api key is required"
    ELSE IF c.APIBase = "" THEN "api base is required"
    ELSE IF Scheme(c.APIBase) \notin {"http", "https"} THEN "api base scheme"
    ELSE IF c.Model = "" THEN "model is required"
    ELSE IF c.LogLevel # "" /\ ToLower(c.LogLevel) \notin {"debug", "info", "error"}
    THEN "invalid log level"
    ELSE IF c.TreePath # "" /\ c.TreePath # "." /\ c.TreePath \notin dirs
    THEN "tree path does not exist"
    ELSE "none"

\* ResolveConfigWithLoader: opts are the flags, getenv the environment,
\* fileConfig what loader.Load returned (the empty Config when it failed),
\* wd the result of os.Getwd ("" when it fails)
ResolveConfigWithLoader(opts, getenv, fileConfig, wd, dirs) ==
    LET first == [f \in Fields |->
                    resolveValue(opts[f], getenv[EnvVar[f]], fileConfig[f], defaults[f])]
        treePath == IF first["TreePath"] = "." \/ first["TreePath"] = ""
                    THEN (IF wd # "" THEN wd ELSE ".")
                    ELSE first["TreePath"]
        resolved == [APIKey |-> first["APIKey"], APIBase |-> first["APIBase"],
                     Model |-> first["Model"], TreePath |-> treePath,
                     LogLevel |-> first["LogLevel"]]
        err == Validate(resolved, dirs)
    IN  IF err # "none" THEN [err |-> err, config |-> EmptyConfig, isNil |-> TRUE]
        ELSE [err |-> "none", config |-> resolved, isNil |-> FALSE]

WorkDir == "/cwd"

\* directories that exist
TreeDirs == {WorkDir, "/env", "/file"}

\* the flags given
CLIChoices ==
    {[APIKey |-> k, APIBase |-> b, Model |-> m, TreePath |-> tp, LogLevel |-> l] :
       k \in {"", "cli-key"},
       b \in {"", "https://cli.example.com", "ftp://cli.example.com"},
       m \in {"", "cli-model"},
       tp \in {"", ".", "/missing"},
       l \in {"", "DEBUG", "verbose"}}

\* the environment
GetenvChoices ==
    {[OPENAI_API_KEY |-> k, OPENAI_API_BASE |-> b, OPENAI_MODEL |-> "",
      SORTPATH_FOLDER_TREE |-> tp, SORTPATH_LOG_LEVEL |-> l] :
       k \in {"", "env-key"}, b \in {"", "https://env.example.com"},
       tp \in {"", "/env"}, l \in {"", "error"}}

\* what the configuration file holds; all empty also stands for a failed Load
FileChoices ==
    {[APIKey |-> k, APIBase |-> b, Model |-> m, TreePath |-> tp, LogLevel |-> l] :
       k \in {"", "file-key"}, b \in {"", "https://file.example.com"},
       m \in {"", "file-model"}, tp \in {"", "/file"}, l \in {"", "debug"}}

RcStart(opts, getenv, fileConfig, wd) ==
    [pc |-> "start", opts |-> opts, getenv |-> getenv, file |-> fileConfig, wd |-> wd,
     result |-> [err |-> "unset", config |-> EmptyConfig, isNil |-> TRUE]]

ResolveConfigInit ==
    /\ ProgramOff
    /\ platform = [os |-> linux, arch |-> amd64]
    /\ pid = [pc |-> "off"] /\ pa = [pc |-> "off"] /\ cf = [pc |-> "off"]
    /\ \E opts \in CLIChoices, getenv \in GetenvChoices, fileConfig \in FileChoices,
          wd \in {WorkDir, ""} :
          rc = RcStart(opts, getenv, fileConfig, wd)

\* conf, err := config.ResolveConfig(opts)
RC_ResolveConfig ==
    /\ rc.pc = "start"
    /\ rc' = [rc EXCEPT !.pc = "returned",
                        !.result = ResolveConfigWithLoader(rc.opts, rc.getenv, rc.file,
                                                           rc.wd, TreeDirs)]
    /\ UNCHANGED <<installVars, updateVars, pid, pa, cf>>

ResolveConfigNext == RC_ResolveConfig

ResolveConfigSpec == ResolveConfigInit /\ [][ResolveConfigNext]_vars

-----------------------------------------------------------------------------
(* Command line: cli.ParseArgs *)

\* the flag registered for each option
FlagNames ==
    [APIKey |-> "api-key", APIBase |-> "api-base", Model |-> "model", TreePath |-> "tree",
     LogLevel |-> "log-level"]

\* var opts config.CLIOptions
NoOptions == [APIKey |-> "", APIBase |-> "", Model |-> "", TreePath |-> "", LogLevel |-> ""]

\* strings.Join(words, " ")
RECURSIVE JoinWords(_)
JoinWords(words) ==
    IF words = <<>> THEN ""
    ELSE IF Len(words) = 1 THEN words[1]
    ELSE words[1] \o " " \o JoinWords(Tail(words))

\* flag.FlagSet.Parse with ContinueOnError: the options as they stand when the
\* arguments are used up or parsing stops (a non-flag, "--", or an error)
RECURSIVE FlagSetParse(_, _)
FlagSetParse(opts, a) ==
    IF a = <<>> THEN opts
    ELSE LET s == Head(a)
         IN  IF Len(s) < 2 \/ CharAt(s, 1) # "-" THEN opts
             ELSE LET numMinuses == IF CharAt(s, 2) = "-" THEN 2 ELSE 1
                      name0 == SubSeq(s, numMinuses + 1, Len(s))
                      eq == {i \in 2..Len(name0) : CharAt(name0, i) = "="}
                      k == CHOOSE i \in eq : \A j \in eq : i <= j
                      name == IF eq # {} THEN SubSeq(name0, 1, k - 1) ELSE name0
                      value == IF eq # {} THEN SubSeq(name0, k + 1, Len(name0)) ELSE ""
                      fld == {f \in Fields : FlagNames[f] = name}
                      f == CHOOSE g \in fld : TRUE
                  IN  IF name0 = "" THEN opts
                      ELSE IF CharAt(name0, 1) = "-" \/ CharAt(name0, 1) = "=" THEN opts
                      ELSE IF fld = {} THEN opts
                      ELSE IF eq # {} THEN FlagSetParse([opts EXCEPT ![f] = value], Tail(a))
                      ELSE IF Len(a) > 1
                      THEN FlagSetParse([opts EXCEPT ![f] = a[2]], Tail(Tail(a)))
                      ELSE opts

\* ParseArgs: descIdx is the index of the first argument without a leading "-"
\* (0 when there is none), the flag set parses the arguments before it
ParseArgs(args) ==
    LET nonFlag == {i \in 1..Len(args) : ~HasPrefix(args[i], "-")}
        descIdx == IF nonFlag = {} THEN 0
                   ELSE (CHOOSE i \in nonFlag : \A j \in nonFlag : i <= j) - 1
    IN  [opts |-> FlagSetParse(NoOptions, SubSeq(args, 1, descIdx)),
         desc |-> JoinWords(SubSeq(args, descIdx + 1, Len(args)))]

\* the words of one flag on the command line
FlagWords(given, style, f) ==
    IF given[f] = "" THEN <<>>
    ELSE IF style = "space" THEN <<"--" \o FlagNames[f], given[f]>>
    ELSE <<"--" \o FlagNames[f] \o "=" \o given[f]>>

\* sortpath [flags] "file description": the flags that are given, then the text
CommandLine(given, style, text) ==
    FlagWords(given, style, "APIKey") \o FlagWords(given, style, "APIBase")
    \o FlagWords(given, style, "Model") \o FlagWords(given, style, "TreePath")
    \o FlagWords(given, style, "LogLevel") \o text

\* the options a user may give
GivenChoices ==
    {[APIKey |-> k, APIBase |-> b, Model |-> m, TreePath |-> tp, LogLevel |-> l] :
       k \in {"", "sk-xxx"}, b \in {"", "https://api.openai.com/v1"}, m \in {"", "gpt-4"},
       tp \in {"", "DIR"}, l \in {"", "debug"}}

\* the positional text: one quoted argument, or two words
Texts == {<<"File description">>, <<"holiday", "photos">>}

PaStart(given, style, text) ==
    [pc |-> "start", given |-> given, style |-> style, text |-> text,
     args |-> CommandLine(given, style, text), opts |-> NoOptions, desc |-> "", exit |-> -1]

ArgsInit ==
    /\ ProgramOff
    /\ platform = [os |-> linux, arch |-> amd64]
    /\ pid = [pc |-> "off"] /\ rc = [pc |-> "off"] /\ cf = [pc |-> "off"]
    /\ \E given \in GivenChoices, style \in {"space", "equals"}, text \in Texts :
          pa = PaStart(given, style, text)

\* main: opts, desc := cli.ParseArgs(args); a missing description ends the run
PA_ParseArgs ==
    /\ pa.pc = "start"
    /\ LET r == ParseArgs(pa.args)
       IN  pa' = [pa EXCEPT !.pc = "returned", !.opts = r.opts, !.desc = r.desc,
                            !.exit = IF r.desc = "" THEN 1 ELSE -1]
    /\ UNCHANGED <<installVars, updateVars, pid, rc, cf>>

ArgsNext == PA_ParseArgs

ArgsSpec == ArgsInit /\ [][ArgsNext]_vars

-----------------------------------------------------------------------------
(* Configuration store: FileLoader.Load and Save, AtomicWrite, and the       *)
(* commands `sortpath config set` and `sortpath config remove`               *)

\* NewFileLoader: $HOME/.config/sortpath/config.yaml
ConfigPath == "/h/.config/sortpath/config.yaml"

\* the yaml tag of each field of Config
YamlKey ==
    [APIKey |-> "api_key", APIBase |-> "api_base", Model |-> "model",
     TreePath |-> "tree_path", LogLevel |-> "log_level"]

\* plain scalars that YAML reads as something other than a string
NonStrings == {"null", "~", "true", "false"}

\* variant: every string is written as a plain scalar
EncodeScalarPlain(v) == v

\* yaml.Marshal of a string: quoted when the plain form would not read back as
\* the same string
EncodeScalar(v) ==
    IF v = "" \/ v \in NonStrings \/ Contains(v, ": ") \/ Contains(v, "#")
    THEN "\"" \o v \o "\"" ELSE v

\* the decoder's reading of a scalar into a string field; null leaves it empty
DecodeScalar(s) ==
    IF Len(s) >= 2 /\ CharAt(s, 1) = "\"" /\ CharAt(s, Len(s)) = "\""
    THEN SubSeq(s, 2, Len(s) - 1)
    ELSE IF s \in {"", "null", "~"} THEN ""
    ELSE s

\* yaml.Marshal(c): one line per field of Config, in the order of the struct
Marshal(c) ==
    YamlKey["APIKey"] \o ": " \o EncodeScalar(c["APIKey"]) \o "\n"
    \o YamlKey["APIBase"] \o ": " \o EncodeScalar(c["APIBase"]) \o "\n"
    \o YamlKey["Model"] \o ": " \o EncodeScalar(c["Model"]) \o "\n"
    \o YamlKey["TreePath"] \o ": " \o EncodeScalar(c["TreePath"]) \o "\n"
    \o YamlKey["LogLevel"] \o ": " \o EncodeScalar(c["LogLevel"]) \o "\n"

\* the value of a top-level key of a document, "" when the key is not there
Lookup(text, key) ==
    LET lines == Split(text, "\n")
        hits == {i \in 1..Len(lines) : HasPrefix(lines[i], key \o ":")}
        line == lines[CHOOSE i \in hits : \A j \in hits : i <= j]
    IN  IF hits = {} THEN ""
        ELSE DecodeScalar(TrimSpace(SubSeq(line, Len(key) + 2, Len(line))))

\* yaml.Decoder.Decode(&c): the keys that are fields of Config; others are skipped
Unmarshal(text) ==
    [APIKey |-> Lookup(text, YamlKey["APIKey"]), APIBase |-> Lookup(text, YamlKey["APIBase"]),
     Model |-> Lookup(text, YamlKey["Model"]), TreePath |-> Lookup(text, YamlKey["TreePath"]),
     LogLevel |-> Lookup(text, YamlKey["LogLevel"])]

NoConfigFile == [exists |-> FALSE, text |-> "", mode |-> "none"]

ConfigFile(text, mode) == [exists |-> TRUE, text |-> text, mode |-> mode]

\* FileLoader.Load: the empty Config when the file is not there, nil when it
\* cannot be opened, the decoded document otherwise
Load(file, unreadable) ==
    IF ~file.exists THEN [isNil |-> FALSE, config |-> EmptyConfig]
    ELSE IF unreadable THEN [isNil |-> TRUE, config |-> EmptyConfig]
    ELSE [isNil |-> FALSE, config |-> Unmarshal(file.text)]

\* the install path a Config with the installed_path field loads from the file
PersistedInstalledPath(file) ==
    IF ~file.exists THEN "" ELSE Lookup(file.text, "installed_path")

\* keys of `config set` and `config remove`, and the field each names
KeyField ==
    [k \in {"api-key", "api-base", "model", "tree-path", "log-level"} |->
       IF k = "api-key" THEN "APIKey" ELSE IF k = "api-base" THEN "APIBase"
       ELSE IF k = "model" THEN "Model" ELSE IF k = "tree-path" THEN "TreePath"
       ELSE "LogLevel"]

\* the keys tried: three of the keys above and two that are not config keys
KeysTried == {"api-key", "model", "log-level", "installed-path", "colour"}

ValuesTried == {"gpt-4", "null"}

\* most commands run one after the other
MaxCmds == 2

\* what the file holds before the first command
StoredConfigs ==
    {EmptyConfig,
     [APIKey |-> "sk-xxx", APIBase |-> "", Model |-> "gpt-3.5-turbo", TreePath |-> "",
      LogLevel |-> "debug"]}

InitialConfigFiles ==
    {NoConfigFile}
    \cup {ConfigFile(Marshal(c) \o extra, mode) :
            c \in StoredConfigs,
            extra \in {"", "installed_path: /usr/local/bin/sortpath\n"},
            mode \in {"0600", "0644"}}

CfIdle(file, dirExists, unreadable) ==
    [pc |-> "idle", file |-> file, tmp |-> NoConfigFile, dirExists |-> dirExists,
     unreadable |-> unreadable, cmds |-> 0, op |-> "none", key |-> "", value |-> "",
     c |-> EmptyConfig, data |-> "", tmpPath |-> "", err |-> "unset", exit |-> -1,
     before |-> file, first |-> PersistedInstalledPath(file)]

\* ProgramOff without the install path, which the file determines here
ConfigInit ==
    /\ Version = V110
    /\ platform = [os |-> linux, arch |-> amd64]
    /\ clock = 0
    /\ lastCheckFile = NoFile
    /\ dir = [q \in Paths |-> IF q = ExecPath THEN 1 ELSE 0]
    /\ inodes = <<OldBinary>>
    /\ up = [p \in UProcs |-> UpOff]
    /\ rd = RdOff
    /\ sc = [s \in SProcs |-> ScOff]
    /\ netCalls = {}
    /\ rs = RsOff
    /\ env = [PATH |-> "", SHELL |-> "", HOME |-> HomeDir, stdin |-> "pipe", CI |-> "",
              container |-> FALSE, TERM |-> ""]
    /\ disk = [files |-> <<>>, dirs |-> <<>>, free |-> 0, noread |-> {}]
    /\ mn = [pc |-> "off"]
    /\ ins = [pc |-> "off"]
    /\ hist = <<>>
    /\ pid = [pc |-> "off"] /\ rc = [pc |-> "off"] /\ pa = [pc |-> "off"]
    /\ \E file \in InitialConfigFiles, dirExists \in BOOLEAN, unreadable \in BOOLEAN :
          /\ file.exists => dirExists
          /\ unreadable => file.exists
          /\ cf = CfIdle(file, dirExists, unreadable)
          /\ installedPath = PersistedInstalledPath(file)

configFrame == <<Version, platform, clock, lastCheckFile, dir, inodes, up, rd, sc, netCalls,
                 rs, installVars, pid, rc, pa>>

\* HandleConfigCommand for `config set <key> <value>` and `config remove <key>`:
\* setConfigValue / removeConfigValue up to the call of config.Save
CC_Command ==
    /\ cf.pc = "idle" /\ cf.cmds < MaxCmds
    /\ \E op \in {"set", "remove"}, key \in KeysTried, value \in ValuesTried :
          LET l == Load(cf.file, cf.unreadable)
              v == IF op = "set" THEN value ELSE ""
          IN  /\ op = "remove" => value = "gpt-4"
              /\ IF key \notin DOMAIN KeyField
                 THEN cf' = [cf EXCEPT !.pc = "idle", !.cmds = cf.cmds + 1, !.op = op,
                                       !.key = key, !.value = v, !.exit = 1,
                                       !.err = "unknown config key", !.before = cf.file]
                 ELSE IF l.isNil
                 THEN cf' = [cf EXCEPT !.pc = "idle", !.cmds = cf.cmds + 1, !.op = op,
                                       !.key = key, !.value = v, !.exit = 2,
                                       !.err = "nil pointer", !.before = cf.file]
                 ELSE LET c == [l.config EXCEPT ![KeyField[key]] = v]
                      IN  cf' = [cf EXCEPT !.pc = "aw_mkdir", !.op = op, !.key = key,
                                           !.value = v, !.c = c, !.data = Marshal(c),
                                           !.err = "unset", !.exit = -1, !.tmpPath = "",
                                           !.before = cf.file]
    /\ UNCHANGED <<configFrame, installedPath>>

\* `sortpath install` between config commands: HandleInstallCommand neither
\* loads nor saves the configuration
CC_Install ==
    /\ cf.pc = "idle" /\ cf.cmds < MaxCmds
    /\ cf' = [cf EXCEPT !.cmds = cf.cmds + 1, !.op = "install", !.key = "", !.value = "",
                        !.exit = 0, !.err = "none", !.before = cf.file]
    /\ UNCHANGED <<configFrame, installedPath>>

\* AtomicWrite returns err before the deferred cleanup is registered
AW_Fail(err) == cf' = [cf EXCEPT !.pc = "aw_return", !.err = err]

\* AtomicWrite returns err and the deferred cleanup runs
AW_FailCleanup(err) == cf' = [cf EXCEPT !.pc = "aw_defer", !.err = err]

\* os.MkdirAll(dir, 0700)
AW_MkdirAll ==
    /\ cf.pc = "aw_mkdir"
    /\ \/ cf' = [cf EXCEPT !.pc = "aw_createtemp", !.dirExists = TRUE]
       \/ ~cf.dirExists /\ AW_Fail("create directory")
    /\ UNCHANGED <<configFrame, installedPath>>

\* os.CreateTemp(dir, ".tmp-sortpath-*"): a new, empty file of mode 0600
AW_CreateTemp ==
    /\ cf.pc = "aw_createtemp"
    /\ \/ cf' = [cf EXCEPT !.pc = "aw_chmod", !.tmp = ConfigFile("", "0600"),
                           !.tmpPath = "/h/.config/sortpath/.tmp-sortpath-1"]
       \/ AW_Fail("create temporary file")
    /\ UNCHANGED <<configFrame, installedPath>>

\* tmpFile.Chmod(0600)
AW_Chmod ==
    /\ cf.pc = "aw_chmod"
    /\ \/ cf' = [cf EXCEPT !.pc = "aw_write", !.tmp.mode = "0600"]
       \/ AW_FailCleanup("set permissions")
    /\ UNCHANGED <<configFrame, installedPath>>

\* tmpFile.Write(data): all of the data, or an error after none or part of it
AW_Write ==
    /\ cf.pc = "aw_write"
    /\ \/ cf' = [cf EXCEPT !.pc = "aw_sync", !.tmp.text = cf.data]
       \/ \E n \in {0, Len(cf.data) \div 2} :
             cf' = [cf EXCEPT !.pc = "aw_defer", !.err = "write",
                              !.tmp.text = SubSeq(cf.data, 1, n)]
    /\ UNCHANGED <<configFrame, installedPath>>

\* tmpFile.Sync()
AW_Sync ==
    /\ cf.pc = "aw_sync"
    /\ \/ cf' = [cf EXCEPT !.pc = "aw_close"]
       \/ AW_FailCleanup("sync")
    /\ UNCHANGED <<configFrame, installedPath>>

\* tmpFile.Close()
AW_Close ==
    /\ cf.pc = "aw_close"
    /\ \/ cf' = [cf EXCEPT !.pc = "aw_rename"]
       \/ AW_FailCleanup("close")
    /\ UNCHANGED <<configFrame, installedPath>>

\* os.Rename(tmpPath, path), then tmpPath = "": the config path names the temp
\* file in one step; or the rename fails and changes nothing
AW_Rename ==
    /\ cf.pc = "aw_rename"
    /\ \/ /\ cf' = [cf EXCEPT !.pc = "aw_defer", !.err = "none", !.file = cf.tmp,
                              !.tmp = NoConfigFile, !.tmpPath = ""]
          /\ installedPath' = PersistedInstalledPath(cf.tmp)
       \/ /\ AW_FailCleanup("rename")
          /\ UNCHANGED installedPath
    /\ UNCHANGED configFrame

\* the deferred tmpFile.Close() and os.Remove(tmpPath)
AW_Defer ==
    /\ cf.pc = "aw_defer"
    /\ cf' = [cf EXCEPT !.pc = "aw_return",
                        !.tmp = IF cf.tmpPath # "" THEN NoConfigFile ELSE cf.tmp]
    /\ UNCHANGED <<configFrame, installedPath>>

\* Save returns to setConfigValue / removeConfigValue; HandleConfigCommand
\* exits with 1 on an error
CC_Return ==
    /\ cf.pc = "aw_return"
    /\ cf' = [cf EXCEPT !.pc = "idle", !.cmds = cf.cmds + 1,
                        !.exit = IF cf.err = "none" THEN 0 ELSE 1]
    /\ UNCHANGED <<configFrame, installedPath>>

ConfigNext ==
    \/ CC_Command \/ CC_Install
    \/ AW_MkdirAll \/ AW_CreateTemp \/ AW_Chmod \/ AW_Write \/ AW_Sync \/ AW_Close
    \/ AW_Rename \/ AW_Defer
    \/ CC_Return

ConfigSpec == ConfigInit /\ [][ConfigNext]_vars

-----------------------------------------------------------------------------
(* Properties of the later components *)

\* the answers that are empty, "y" or "yes" once trimmed and lower-cased
Affirmative == {"\n", "y\n", "Yes\n", " Y \n", "yes", "YES\r\n", ""}

\* HandleInstallCommand is running
InstallRunning ==
    ins.pc \in {"parse", "stat", "copy", "chmod", "fallback", "pathcheck", "addpath"}

C24_State ==
    mn.raw # "unset"
    => /\ mn.prompted
       /\ mn.raw \in Affirmative <=> mn.installCalls = 1
       /\ mn.raw \notin Affirmative
          => /\ ins = InsIdle /\ hist = <<>> /\ mn.installCalls = 0
             /\ mn.pc \in {"go_check", "primary", "exited"}
             /\ mn.pc = "exited" => mn.result # "none"
       /\ InstallRunning => mn.pc = "prompt_install"
       /\ mn.pc \in {"go_check", "primary"} => ~InstallRunning

C24_Frame ==
    (mn'.raw # "unset" /\ mn'.raw \notin Affirmative)
    => UNCHANGED <<disk, installedPath, ins, hist, dir, inodes>>

\* C24: after the prompt, HandleInstallCommand runs, and runs to its end before
\* main goes on, exactly when the answer trimmed and lower-cased is empty, "y"
\* or "yes"; after any other answer no install is attempted, no file and no
\* state changes, and the primary command runs to its result.
C24_InstallIffAffirmative == [](C24_State) /\ [][C24_Frame]_vars

C24_Witness ==
    /\ mn.raw = "YES\r\n" /\ mn.installCalls = 1 /\ ins.pc = "returned"
    /\ mn.pc = "primary"

\* the operating systems and architectures the claim names, with their names in the tag
TagOS == [u \in UnameS |->
            IF u = "Linux" THEN "linux" ELSE IF u = "Darwin" THEN "darwin"
            ELSE IF u \in {"CYGWIN_NT-10.0", "MINGW64_NT-10.0", "MSYS_NT-10.0"} THEN "windows"
            ELSE ""]

TagArch == [u \in UnameM |->
            IF u \in {"x86_64", "amd64"} THEN "amd64"
            ELSE IF u \in {"arm64", "aarch64"} THEN "arm64" ELSE ""]

SupportedGo == {[os |-> o, arch |-> a] : o \in {linux, darwin, windows}, a \in {amd64, arm64}}

\* the install script on its own: the tag for a supported pair, exit 1 and no
\* platform value otherwise
ScriptTagAsClaimed ==
    pid.pc = "on" /\ pid.sh # "start"
    => IF TagOS[pid.unameS] # "" /\ TagArch[pid.unameM] # ""
       THEN /\ pid.sh \in {"detected", "download"}
            /\ pid.shPlatform = TagOS[pid.unameS] \o "-" \o TagArch[pid.unameM]
       ELSE pid.sh = "exit1" /\ pid.shPlatform = "" /\ pid.shURL = ""

ResolverTagAsClaimed ==
    pid.pc = "on" /\ pid.go = "returned"
    => IF platform \in SupportedGo
       THEN pid.goPlatform = platform.os \o <<"-">> \o platform.arch
       ELSE pid.goErr # "none" /\ pid.goURL = NoURL

\* C21: for every supported pair of operating system and architecture the
\* platform tag is "<os>-<arch>" with the aliases normalised, in the install
\* script and in the resolver; for every other pair an error is reported and no
\* tag is used.
C21_TagOrUnsupportedError == ScriptTagAsClaimed /\ ResolverTagAsClaimed

\* the first non-empty of the flag, the environment variable, the file value
\* and the default of field f, in that order
FirstNonEmpty(f) ==
    LET src == <<rc.opts[f], rc.getenv[EnvVar[f]], rc.file[f], defaults[f]>>
        set == {i \in 1..4 : src[i] # ""}
    IN  IF set = {} THEN "" ELSE src[CHOOSE i \in set : \A j \in set : i <= j]

\* C22 as stated: every field of the configuration ResolveConfig returns is
\* the first non-empty value in the order flag, environment variable, file,
\* default.
C22_FirstNonEmptyEveryField ==
    (rc.pc = "returned" /\ ~rc.result.isNil)
    => \A f \in Fields : rc.result.config[f] = FirstNonEmpty(f)

\* C22: every field other than the tree path is the first non-empty value in
\* the order flag, environment variable, file, default, whatever the other
\* fields' sources hold; a tree path whose first non-empty value is "." is
\* replaced by the working directory when it is known; no configuration is
\* returned when the API key is empty in every source.
C22_FirstNonEmptyExceptDotTree ==
    rc.pc = "returned"
    => /\ ~rc.result.isNil
          => /\ \A f \in Fields \ {"TreePath"} : rc.result.config[f] = FirstNonEmpty(f)
             /\ rc.result.config["TreePath"] =
                  IF FirstNonEmpty("TreePath") = "." /\ rc.wd # "" THEN rc.wd
                  ELSE FirstNonEmpty("TreePath")
       /\ FirstNonEmpty("APIKey") = "" => rc.result.isNil /\ rc.result.err # "none"
       /\ rc.result.isNil <=> rc.result.err # "none"

C22_Witness ==
    /\ rc.pc = "returned" /\ ~rc.result.isNil
    /\ rc.opts["APIKey"] = "" /\ rc.getenv["OPENAI_API_KEY"] # "" /\ rc.file["APIKey"] # ""
    /\ rc.opts["Model"] # "" /\ rc.file["Model"] # ""
    /\ rc.opts["APIBase"] = "" /\ rc.getenv["OPENAI_API_BASE"] = "" /\ rc.file["APIBase"] = ""
    /\ rc.opts["TreePath"] = "." /\ rc.getenv["SORTPATH_FOLDER_TREE"] # ""
    /\ rc.result.config["TreePath"] = WorkDir

\* C23: for a command line `sortpath [flags] "file description"` whose flags
\* are written `--flag value`, ParseArgs returns every flag's value in its
\* option and the positional text as the description.
C23_FlagsThenDescription ==
    (pa.pc = "returned" /\ pa.style = "space")
    => pa.opts = pa.given /\ pa.desc = JoinWords(pa.text)

C26_State ==
    Version = dev
    => /\ netCalls = {}
       /\ \A s \in SProcs : ~sc[s].read /\ ~sc[s].called /\ ~sc[s].notified

C26_Frame == Version = dev => lastCheckFile' = lastCheckFile

\* C26: in a development build (Version "dev") the startup check does nothing:
\* the last-check timestamp is neither read nor written and the resolver is
\* never called.
C26_DevBuildSkipsCheck == [](C26_State) /\ [][C26_Frame]_vars

C26_Witness ==
    Version = dev /\ \A s \in SProcs : sc[s].pc = "done"

\* the places HandleInstallCommand writes the binary to
InstallTargets == {ins.destPath, Join(userBinFallbackDir, ProgramName)}

\* C27: an install without --force overwrites no sortpath binary that is already
\* there, neither at the destination nor, after a permission failure, at
\* <fallbackDir>/sortpath: the file keeps its bytes.
C27_NoOverwriteWithoutForce ==
    (PastForceCheck /\ ~ins.force)
    => \A q \in InstallTargets \cap FilePaths :
          DiskAtStart.files[q].exists => disk.files[q] = DiskAtStart.files[q]

\* the bodies the update commands have received so far
Downloads == {up[p].body : p \in {q \in UProcs : up[q].pc \notin {"off", "ub_exec", "ub_get"}}}

\* C28: with two update commands in UpdateBinary at the same time, the live
\* executable path always holds a whole file: the binary installed before or
\* the complete bytes of one of the two downloads, never a partly written,
\* truncated or mixed file.
C28_LivePathWhole ==
    /\ Exists(ExecPath)
    /\ Content(ExecPath) \in {OldBinary} \cup Downloads

\* C29: after an `update` that reports success, the file at the recorded
\* install path holds the downloaded bytes, also when the command was started
\* from an executable at another path.
C29_InstalledPathHoldsDownload ==
    \A p \in UProcs :
       (up[p].pc = "done" /\ up[p].msg = "updated")
       => /\ installedPath \in Paths
          /\ Exists(installedPath)
          /\ Content(installedPath) = up[p].body

\* the file Save is writing: the marshalled configuration, mode 0600
NewConfigFile == ConfigFile(cf.data, "0600")

InSave == cf.pc \in {"aw_mkdir", "aw_createtemp", "aw_chmod", "aw_write", "aw_sync",
                     "aw_close", "aw_rename", "aw_defer", "aw_return"}

\* C25: at every step of Save the config path holds the whole previous content
\* or the whole new content; when Save fails the previous content is intact
\* and the temp file is gone; when it succeeds the file holds exactly the new
\* data with mode 0600 and Load returns the configuration that was saved.
C25_SaveIsAtomic ==
    InSave
    => /\ cf.file = cf.before \/ cf.file = NewConfigFile
       /\ (cf.pc = "aw_return" /\ cf.err # "none")
          => cf.file = cf.before /\ ~cf.tmp.exists
       /\ (cf.pc = "aw_return" /\ cf.err = "none")
          => /\ cf.file = NewConfigFile /\ ~cf.tmp.exists
             /\ ~Load(cf.file, FALSE).isNil
             /\ Load(cf.file, FALSE).config = cf.c

C25_Witness ==
    /\ cf.pc = "aw_return" /\ cf.err = "none"
    /\ cf.before.exists /\ cf.before.mode = "0644" /\ cf.before # cf.file
    /\ cf.c["Model"] = "null"

C25_FailureWitness ==
    cf.pc = "aw_return" /\ cf.err = "write" /\ cf.before.exists

\* C30: no `config set`, no `config remove` and no rejected command changes
\* the persisted install path, in any sequence of install and config commands.
C30_InstalledPathKept ==
    cf.pc # "off" => installedPath = cf.first /\ PersistedInstalledPath(cf.file) = cf.first

====
